---- MODULE Spec2Model ----
(***************************************************************************)
(* Model of the rpi5-chatbot voice assistant (src/rpi5-chatbot/src):       *)
(* the conversation state machine of VoiceChatbot (voice_chatbot.py), the  *)
(* queue based AudioPlayer and the StateManager (audio_utils.py), the      *)
(* TimeoutManager (timeout_manager.py), the pause/resume switches of       *)
(* WhisperSTT (whisper_stt.py), the DismissalDetector and the              *)
(* SentenceDetector / StreamingTTSProcessor pipeline.                      *)
(*                                                                         *)
(* Threads of the program and their model:                                 *)
(*   - main thread               : Start                                   *)
(*   - wake listener thread      : OnWakeWordDetected,                     *)
(*                                 OnWakeWordWhileActive                   *)
(*   - whisper recording thread  : OnTranscriptionReceived                 *)
(*   - response processor thread : Dispatch*, SetCallbacks, StreamChunk,   *)
(*                                 StreamEnd*, StreamingComplete*,         *)
(*                                 BlockingRespond                         *)
(*   - audio queue worker thread : WorkerStartItem, WorkerFinishItem,      *)
(*                                 WorkerEmptyCheck, WorkerGraceRecheck    *)
(*   - playback thread (blocking path) : PlaybackFinished                  *)
(*   - timer threads             : ConversationTimerFires, IdleTimerFires  *)
(*                                                                         *)
(* Text is a sequence of one-character strings.  The configuration values  *)
(* read by the handlers (interaction_mode, use_streaming) are inputs drawn *)
(* in Init.  Feedback tones and LEDs have no effect on the modelled state. *)
(***************************************************************************)
EXTENDS Integers, Sequences, FiniteSets, TLC

\* ------------------------------------------------------------------ bounds
MaxTurns == 2

MaxIgnoredWakes == 2

MaxWaitTimeouts == 1

\* turns dispatched in the specification that counts ignored wake signals
MaxWakeTurns == 1

MaxWakeFailures == 2

\* timers armed in a run of the TimeoutManager
MaxArmings == 2

\* turns dispatched in the runs that include VoiceChatbot.stop
MaxStopTurns == 1

\* ConversationManager runs: largest max_entries, longest reloaded file, additions
MaxEntries == 2

MaxFileLen == 3

MaxAdds == 3

\* turns dispatched, and timeouts of each kind counted, in the runs that count them
MaxTimeoutTurns == 1

MaxTimeouts == 1

\* turns dispatched in the runs where a timer thread is between its test and its call
MaxRaceTurns == 1

\* fragments passed to the SentenceDetector in a run, and characters per fragment
MaxFragments == 2

MaxFragLen == 2

\* chunks of the stream a StreamingTTSProcessor run reads
MaxTtsChunks == 3

\* worker threads created and items held by the queue in a run of the AudioPlayer
MaxQueueThreads == 2

MaxQueueItems == 1

\* ------------------------------------------------------- program constants
\* ConversationConfig.min_sentence_length as used for the model's short texts
min_sentence_length == 3

sentence_endings == {".", "!", "?", ":", ";"}

Whitespace == {" "}

ActiveStates == {"listening", "processing", "speaking"}

OperatingStates == {"listening", "processing", "speaking", "light_sleep", "deep_sleep"}

KnownModes == {"single-shot", "conversation", "smart"}

InteractionModes == KnownModes \cup {"party"}

StartModes == {"light_sleep", "listening", "deep_sleep"}

\* ------------------------------------------------------------ text helpers
Min(S) == CHOOSE x \in S : \A y \in S : x <= y

RECURSIVE LStrip(_)
LStrip(s) == IF s # <<>> /\ Head(s) \in Whitespace THEN LStrip(Tail(s)) ELSE s

RECURSIVE RStrip(_)
RStrip(s) == IF s # <<>> /\ s[Len(s)] \in Whitespace
             THEN RStrip(SubSeq(s, 1, Len(s) - 1)) ELSE s

\* str.strip()
Strip(s) == RStrip(LStrip(s))

\* str.endswith('?')
EndsWith(s, ch) == s # <<>> /\ s[Len(s)] = ch

\* str.find(ch, from): 1-based position of the first ch at or after from, 0 if none
Find(buf, ch, from) ==
    LET hits == {i \in from..Len(buf) : buf[i] = ch}
    IN  IF hits = {} THEN 0 ELSE Min(hits)

\* the "for ending in self.sentence_endings" scan keeping the earliest hit
EarliestEnding(buf, from) ==
    LET ps == {Find(buf, e, from) : e \in sentence_endings} \ {0}
    IN  IF ps = {} THEN 0 ELSE Min(ps)

\* ----------------------------------------------------- SentenceDetector
\* add_chunk emitting at the first ending whatever the length
RECURSIVE AddChunkLoopNoMinimum(_)
AddChunkLoopNoMinimum(acc) ==
    LET buf      == acc.buffer
        earliest == EarliestEnding(buf, 1)
        first    == Strip(SubSeq(buf, 1, earliest))
    IN  IF earliest = 0 THEN acc
        ELSE AddChunkLoopNoMinimum(
                 [sentences |-> Append(acc.sentences, first),
                  buffer |-> Strip(SubSeq(buf, earliest + 1, Len(buf)))])

\* the "while True" loop of add_chunk; acc is [sentences, buffer]
RECURSIVE AddChunkLoop(_)
AddChunkLoop(acc) ==
    LET buf      == acc.buffer
        earliest == EarliestEnding(buf, 1)
        first    == Strip(SubSeq(buf, 1, earliest))
        next     == EarliestEnding(buf, earliest + 1)
        combined == Strip(SubSeq(buf, 1, next))
    IN  IF earliest = 0 THEN acc
        ELSE IF Len(first) >= min_sentence_length
        THEN AddChunkLoop([sentences |-> Append(acc.sentences, first),
                           buffer |-> Strip(SubSeq(buf, earliest + 1, Len(buf)))])
        ELSE IF earliest < Len(buf) /\ next # 0 /\ Len(combined) >= min_sentence_length
        THEN AddChunkLoop([sentences |-> Append(acc.sentences, combined),
                           buffer |-> Strip(SubSeq(buf, next + 1, Len(buf)))])
        ELSE acc

\* SentenceDetector.add_chunk: [sentences, buffer] after appending chunk to buffer
AddChunk(buffer, chunk) == AddChunkLoop([sentences |-> <<>>, buffer |-> buffer \o chunk])

\* SentenceDetector.flush: the final sentence (<<>> stands for None) and the new buffer
Flush(buffer) ==
    IF Strip(buffer) # <<>>
    THEN [sentence |-> Strip(buffer), buffer |-> <<>>]
    ELSE [sentence |-> <<>>, buffer |-> buffer]

\* ----------------------------------------------------- DismissalDetector
\* word sequences standing for the compiled \b...\b patterns
DismissalPatterns == { <<"tchau">>, <<"ate", "logo">>, <<"bye">> }

\* pattern.search(text): the pattern's words occur contiguously in the text
Search(pattern, text) ==
    \E i \in 1..(Len(text) - Len(pattern) + 1) :
        SubSeq(text, i, i + Len(pattern) - 1) = pattern

is_dismissal(text) ==
    IF text = <<>> THEN FALSE
    ELSE \E pattern \in DismissalPatterns : Search(pattern, text)

\* utterances the recording thread delivers (already cleaned, never blank)
Utterances == { <<"ok", "tchau">>, <<"que", "horas", "sao">> }

\* streamed LLM answers: a sequence of chunks, each a sequence of characters
StreamedResponses ==
    { << >>,
      << <<"a", "a", ".">>, <<" ", "b", "b", "?", " ">> >>,
      << <<"a", "a", ".">>, <<" ", "b", ".">> >> }

\* complete LLM answers of the blocking path (<<>> is the empty answer)
BlockingResponses ==
    { <<>>, <<"a", "a", ".", " ", "b", "b", "?">>, <<"a", "a", ".">> }

\* ------------------------------------------------------------------ state
VARIABLES
    interaction_mode,      \* config.conversation.interaction_mode
    use_streaming,         \* config.conversation.use_streaming
    started,               \* "no", "running" or "failed": VoiceChatbot.start
    current_state,         \* StateManager.current_state
    whisper_is_running,    \* WhisperSTT.is_running
    whisper_is_paused,     \* WhisperSTT.is_paused
    conv_timer,            \* TimeoutManager._conversation_timer: "none" or its duration
    idle_timer,            \* TimeoutManager._idle_timer: "none" or "armed"
    ollama_running,        \* the LLM backend service is up
    is_processing,         \* VoiceChatbot.is_processing
    is_dismissal_pending,  \* VoiceChatbot.is_dismissal_pending
    response_queue,        \* VoiceChatbot.response_queue
    rpc,                   \* position of the response processor thread
    session,               \* number of turns dispatched so far (the current turn)
    user_input,            \* the utterance of the current turn
    pending_chunks,        \* chunks the LLM stream has still to yield
    chunks_received,       \* _handle_user_input_streaming.chunks_received
    seg_buffer,            \* SentenceDetector.buffer
    full_response,         \* StreamingTTSProcessor.full_response
    first_audio_played,    \* per turn closure: first_audio_played
    queue_finished,        \* per turn closure: queue_finished
    playback_queue,        \* AudioPlayer.playback_queue
    is_queue_active,       \* AudioPlayer.is_queue_active
    generation_complete,   \* AudioPlayer.generation_complete
    enqueued_count,        \* AudioPlayer.enqueued_count
    played_count,          \* AudioPlayer.played_count
    on_chunk_start,        \* AudioPlayer.on_chunk_start: 0 (None) or the turn of the closure
    on_queue_complete,     \* AudioPlayer.on_queue_complete: 0 (None) or the turn of the closure
    wpc,                   \* position of the queue worker thread
    w_item,                \* the item the worker is playing
    ppc,                   \* position of the playback thread of the blocking path
    p_text,                \* response text of the playback in progress
    ignored_wakes,         \* history: wake signals delivered in an active state
    decisions,             \* history: post-response handlers run
    wait_timeouts,         \* history: turns whose wait loop ran into its 60 s limit
    warned,                \* history: the last post-response handler logged the warning
    complete_calls,        \* history: per turn, invocations of its on_queue_complete
    speaking_sets,         \* history: per turn, set_state("speaking") by on_first_chunk_start
    item_started,          \* history: per turn, an item started while its on_chunk_start was set
    last_started,          \* history: the item the worker started most recently
    wake_failures,         \* history: wake signals in deep sleep whose backend start failed
    stop_pc,               \* position of VoiceChatbot.stop: "off" until it is called
    conv_timeouts,         \* history: conversation timeouts handled in the listening state
    idle_timeouts,         \* history: idle timeouts handled in the light_sleep state
    conv_calling,          \* a conversation timer thread has passed its finished test
    idle_calling,          \* an idle timer thread has passed its finished test
    cm_pc,                 \* history run: "off", "new" (before __init__) or "ready"
    max_entries,           \* ConversationManager.max_entries
    entries,               \* ConversationManager.entries
    save_file,             \* the entries stored in the file save_file names
    adds,                  \* history run: add_entry calls so far
    last_add_saved,        \* history run: the last add_entry wrote the file
    sd_pc,                 \* segmenter run: "off", "feeding" or "flushed"
    sd_chunks,             \* segmenter run: the fragments still to be passed to add_chunk
    sd_buffer,             \* segmenter run: SentenceDetector.buffer
    sd_sentences,          \* segmenter run: the sentences add_chunk has returned, in order
    sd_text,               \* segmenter run: the text streamed so far
    sd_final,              \* segmenter run: what flush returned (<<>> stands for None)
    sd_synth_ok,           \* processor run: the outcome of synthesize_to_temp per sentence
    qp_pc,                 \* player run: where each queue worker thread stands
    qp_queue_thread,       \* player run: AudioPlayer.queue_thread, 0 (None) or a thread
    qp_join,               \* player run: the thread each caller of stop_queue_playback waits for
    qp_self_stop,          \* player run: the thread called stop_queue_playback since its loop test
    tm_handle,             \* TimeoutManager._conversation_timer / _idle_timer: 0 (None) or an arming
    tm_thread,             \* per arming: the threading.Timer thread
    tm_calls,              \* per arming: invocations of the registered callback
    tm_cancelled_at,       \* history: per arming, where its thread was when cancel() was called
    tm_requested,          \* the duration the last start call asked for, "none" before any
    tm_error,              \* the last start call raised TypeError
    tm_default             \* TimeoutManager.conversation_timeout / idle_timeout

smVars == <<current_state, whisper_is_running, whisper_is_paused, conv_timer,
            idle_timer, ollama_running, is_dismissal_pending>>

configVars == <<interaction_mode, use_streaming>>

turnVars == <<rpc, session, user_input, pending_chunks, chunks_received, seg_buffer,
              full_response>>

closureVars == <<first_audio_played, queue_finished>>

queueVars == <<playback_queue, is_queue_active, generation_complete, enqueued_count,
               played_count, on_chunk_start, on_queue_complete, wpc, w_item>>

playVars == <<ppc, p_text>>

historyVars == <<ignored_wakes, decisions, wait_timeouts, warned, complete_calls,
                 speaking_sets, item_started, last_started, wake_failures>>

segVars == <<sd_pc, sd_chunks, sd_buffer, sd_sentences, sd_text, sd_final, sd_synth_ok>>

timerVars == <<tm_handle, tm_thread, tm_calls, tm_cancelled_at, tm_requested, tm_error,
               tm_default>>

raceVars == <<conv_calling, idle_calling>>

countVars == <<conv_timeouts, idle_timeouts>>

qpVars == <<qp_pc, qp_queue_thread, qp_join, qp_self_stop>>

histVars == <<cm_pc, max_entries, entries, save_file, adds, last_add_saved>>

\* the state of the interaction program, without the ConversationManager run
coreVars == <<configVars, started, smVars, is_processing, response_queue, turnVars,
              closureVars, queueVars, playVars, historyVars, stop_pc, countVars,
              conv_calling, idle_calling, qpVars>>

programVars == <<coreVars, histVars>>

vars == <<programVars, segVars, timerVars>>

Turns == 1..MaxTurns

\* the queue worker threads a player run can create, and the threads that call
\* stop_queue_playback: a worker, or 0 for any other thread
QueueThreads == 1..MaxQueueThreads

QueueCallers == 0..MaxQueueThreads

\* TimeoutType: the two timers of the TimeoutManager
TimerNames == {"conversation", "idle"}

Armings == 1..MaxArmings

\* a threading.Timer thread that does not exist yet
NoThread == [name |-> "none", pc |-> "unused", finished |-> FALSE, duration |-> "none"]

NoItem == [session |-> 0, n |-> 0, text |-> <<>>]

\* ------------------------------------- the state the handlers read and write
View == [state    |-> current_state,
         running  |-> whisper_is_running,
         paused   |-> whisper_is_paused,
         conv     |-> conv_timer,
         idle     |-> idle_timer,
         ollama   |-> ollama_running,
         pending  |-> is_dismissal_pending,
         warned   |-> FALSE,
         raised   |-> FALSE]

SetView(v) ==
    /\ current_state' = v.state
    /\ whisper_is_running' = v.running
    /\ whisper_is_paused' = v.paused
    /\ conv_timer' = v.conv
    /\ idle_timer' = v.idle
    /\ ollama_running' = v.ollama
    /\ is_dismissal_pending' = v.pending

\* StateManager.set_state
set_state(v, new_state) == [v EXCEPT !.state = new_state]

\* WhisperSTT.start, successful
whisper_start(v) == [v EXCEPT !.running = TRUE, !.paused = FALSE]

\* WhisperSTT.stop
whisper_stop(v) == [v EXCEPT !.running = FALSE]

\* WhisperSTT.pause_recording
pause_recording(v) == [v EXCEPT !.paused = TRUE]

\* WhisperSTT.resume_recording
resume_recording(v) == [v EXCEPT !.paused = FALSE]

\* TimeoutManager.start_conversation_timer(self): it takes no argument, so a call
\* with keyword arguments raises TypeError before anything is armed
start_conversation_timer(v, kwargs) ==
    IF kwargs # {} THEN [v EXCEPT !.raised = TRUE] ELSE [v EXCEPT !.conv = "default"]

\* TimeoutManager.reset_conversation_timer
reset_conversation_timer(v) == [v EXCEPT !.conv = "none"]

\* TimeoutManager.stop_conversation_timer
stop_conversation_timer(v) == [v EXCEPT !.conv = "none"]

\* TimeoutManager.start_idle_timer
start_idle_timer(v) == [v EXCEPT !.idle = "armed"]

\* TimeoutManager.reset_idle_timer
reset_idle_timer(v) == [v EXCEPT !.idle = "none"]

\* TimeoutManager.stop_all_timers
stop_all_timers(v) == [v EXCEPT !.conv = "none", !.idle = "none"]

\* _enter_light_sleep with the start of the idle timer left out
enter_light_sleep_no_idle_timer(v) ==
    set_state(stop_conversation_timer(whisper_stop(v)), "light_sleep")

\* VoiceChatbot._enter_light_sleep
enter_light_sleep(v) ==
    set_state(start_idle_timer(stop_conversation_timer(whisper_stop(v))), "light_sleep")

\* SleepManager.enter_deep_sleep: True at once when the backend is already stopped,
\* otherwise stop_ok, the outcome of stopping the service
sleep_manager_enter_deep_sleep(v, stop_ok) == ~v.ollama \/ stop_ok

\* SleepManager.wake_from_deep_sleep: True at once when the backend is already
\* running, otherwise wake_ok, the outcome of starting the service and waiting
wake_from_deep_sleep(v, wake_ok) == v.ollama \/ wake_ok

\* _enter_deep_sleep that returns on a failed backend stop without start_idle_timer
enter_deep_sleep_no_retry(v, stop_ok) ==
    LET w == stop_all_timers(whisper_stop(v))
    IN  IF ~sleep_manager_enter_deep_sleep(w, stop_ok) THEN w
        ELSE set_state([w EXCEPT !.ollama = FALSE], "deep_sleep")

\* VoiceChatbot._enter_deep_sleep
enter_deep_sleep(v, stop_ok) ==
    LET w == stop_all_timers(whisper_stop(v))
    IN  IF ~sleep_manager_enter_deep_sleep(w, stop_ok) THEN start_idle_timer(w)
        ELSE set_state([w EXCEPT !.ollama = FALSE], "deep_sleep")

\* VoiceChatbot._response_invites_continuation
response_invites_continuation(response_text) == EndsWith(Strip(response_text), "?")

\* ------------------------------------------------- post-response handlers
\* _handle_streaming_complete with the dismissal test left out
handle_streaming_complete_no_dismissal(v, mode, response_text) ==
    IF mode = "single-shot"
    THEN enter_light_sleep(v)
    ELSE IF mode = "conversation"
    THEN start_conversation_timer(set_state(resume_recording(v), "listening"), {})
    ELSE IF mode = "smart"
    THEN IF response_invites_continuation(response_text)
         THEN start_conversation_timer(set_state(resume_recording(v), "listening"),
                                       {"timeout"})
         ELSE enter_light_sleep(v)
    ELSE start_conversation_timer(
             set_state(resume_recording([v EXCEPT !.warned = TRUE]), "listening"), {})

\* _handle_streaming_complete with an unknown mode handled like single-shot
handle_streaming_complete_unknown_sleeps(v, mode, response_text) ==
    IF v.pending
    THEN enter_light_sleep([v EXCEPT !.pending = FALSE])
    ELSE IF mode = "single-shot"
    THEN enter_light_sleep(v)
    ELSE IF mode = "conversation"
    THEN start_conversation_timer(set_state(resume_recording(v), "listening"), {})
    ELSE IF mode = "smart"
    THEN IF response_invites_continuation(response_text)
         THEN start_conversation_timer(set_state(resume_recording(v), "listening"),
                                       {"timeout"})
         ELSE enter_light_sleep(v)
    ELSE enter_light_sleep([v EXCEPT !.warned = TRUE])

\* on_finish with the conversation branch not starting the conversation timer
on_finish_conversation_no_timer(v, mode, response_text) ==
    IF v.pending
    THEN enter_light_sleep([v EXCEPT !.pending = FALSE])
    ELSE IF mode = "single-shot"
    THEN enter_light_sleep(v)
    ELSE IF mode = "conversation"
    THEN set_state(resume_recording(v), "listening")
    ELSE IF mode = "smart"
    THEN IF response_invites_continuation(response_text)
         THEN start_conversation_timer(set_state(resume_recording(v), "listening"),
                                       {"timeout"})
         ELSE enter_light_sleep(v)
    ELSE start_conversation_timer(
             set_state(resume_recording([v EXCEPT !.warned = TRUE]), "listening"), {})

\* VoiceChatbot._handle_streaming_complete
handle_streaming_complete(v, mode, response_text) ==
    IF v.pending
    THEN enter_light_sleep([v EXCEPT !.pending = FALSE])
    ELSE IF mode = "single-shot"
    THEN enter_light_sleep(v)
    ELSE IF mode = "conversation"
    THEN start_conversation_timer(set_state(resume_recording(v), "listening"), {})
    ELSE IF mode = "smart"
    THEN IF response_invites_continuation(response_text)
         THEN start_conversation_timer(set_state(resume_recording(v), "listening"),
                                       {"timeout"})
         ELSE enter_light_sleep(v)
    ELSE start_conversation_timer(
             set_state(resume_recording([v EXCEPT !.warned = TRUE]), "listening"), {})

\* VoiceChatbot._play_response.on_finish
on_finish(v, mode, response_text) ==
    IF v.pending
    THEN enter_light_sleep([v EXCEPT !.pending = FALSE])
    ELSE IF mode = "single-shot"
    THEN enter_light_sleep(v)
    ELSE IF mode = "conversation"
    THEN start_conversation_timer(set_state(resume_recording(v), "listening"), {})
    ELSE IF mode = "smart"
    THEN IF response_invites_continuation(response_text)
         THEN start_conversation_timer(set_state(resume_recording(v), "listening"),
                                       {"timeout"})
         ELSE enter_light_sleep(v)
    ELSE start_conversation_timer(
             set_state(resume_recording([v EXCEPT !.warned = TRUE]), "listening"), {})

\* VoiceChatbot._play_response.on_start
on_start(v) == pause_recording(set_state(v, "speaking"))

\* ------------------------------------------------------------ wake signal
\* _on_wake_word_detected with the test for the active states left out
on_wake_word_detected_no_guard(v, wake_ok, start_ok) ==
    LET a == reset_idle_timer(v)
        b == IF a.state = "deep_sleep" THEN [a EXCEPT !.ollama = TRUE] ELSE a
    IN  IF a.state = "deep_sleep" /\ ~wake_from_deep_sleep(a, wake_ok) THEN a
        ELSE IF ~b.running /\ ~start_ok THEN b
        ELSE set_state(IF b.running THEN b ELSE whisper_start(b), "listening")

\* _on_wake_word_detected going on although wake_from_deep_sleep returned False
on_wake_word_detected_ignores_wake_result(v, wake_ok, start_ok) ==
    IF v.state \in ActiveStates THEN v
    ELSE LET a == reset_idle_timer(v)
             b == IF a.state = "deep_sleep" THEN [a EXCEPT !.ollama = TRUE] ELSE a
         IN  IF ~b.running /\ ~start_ok THEN b
             ELSE set_state(IF b.running THEN b ELSE whisper_start(b), "listening")

\* VoiceChatbot._on_wake_word_detected; wake_ok is the outcome of starting the
\* backend, start_ok the result of WhisperSTT.start
on_wake_word_detected(v, wake_ok, start_ok) ==
    IF v.state \in ActiveStates THEN v
    ELSE LET a == reset_idle_timer(v)
             b == IF a.state = "deep_sleep" THEN [a EXCEPT !.ollama = TRUE] ELSE a
         IN  IF a.state = "deep_sleep" /\ ~wake_from_deep_sleep(a, wake_ok) THEN a
             ELSE IF ~b.running /\ ~start_ok THEN b
             ELSE set_state(IF b.running THEN b ELSE whisper_start(b), "listening")

\* ---------------------------------------------------------- transcription
\* the guard of VoiceChatbot._on_transcription_received
accepts_transcription(v, processing) == v.state = "listening" /\ ~processing

\* VoiceChatbot._on_transcription_received, for an accepted non-blank text
on_transcription_received(v, text) ==
    LET p == pause_recording(v)
        d == IF is_dismissal(text) THEN [p EXCEPT !.pending = TRUE] ELSE p
    IN  reset_conversation_timer(d)

\* ------------------------------------------------------------------- Init
\* VoiceChatbot.__init__ and the objects it creates
InitProgram ==
    /\ interaction_mode \in InteractionModes
    /\ use_streaming \in BOOLEAN
    /\ started = "no"
    /\ current_state = "idle"
    /\ whisper_is_running = FALSE
    /\ whisper_is_paused = FALSE
    /\ conv_timer = "none"
    /\ idle_timer = "none"
    /\ ollama_running = TRUE
    /\ is_processing = FALSE
    /\ is_dismissal_pending = FALSE
    /\ response_queue = <<>>
    /\ rpc = "idle"
    /\ session = 0
    /\ user_input = <<>>
    /\ pending_chunks = <<>>
    /\ chunks_received = 0
    /\ seg_buffer = <<>>
    /\ full_response = <<>>
    /\ first_audio_played = [t \in Turns |-> FALSE]
    /\ queue_finished = [t \in Turns |-> FALSE]
    /\ playback_queue = <<>>
    /\ is_queue_active = FALSE
    /\ generation_complete = FALSE
    /\ enqueued_count = 0
    /\ played_count = 0
    /\ on_chunk_start = 0
    /\ on_queue_complete = 0
    /\ wpc = "off"
    /\ w_item = NoItem
    /\ ppc = "idle"
    /\ p_text = <<>>
    /\ ignored_wakes = 0
    /\ decisions = 0
    /\ wait_timeouts = 0
    /\ warned = FALSE
    /\ complete_calls = [t \in Turns |-> 0]
    /\ speaking_sets = [t \in Turns |-> 0]
    /\ item_started = [t \in Turns |-> FALSE]
    /\ last_started = NoItem
    /\ wake_failures = 0
    /\ stop_pc = "off"
    /\ conv_timeouts = 0
    /\ idle_timeouts = 0
    /\ conv_calling = FALSE
    /\ qp_pc = [t \in QueueThreads |-> "unborn"]
    /\ qp_queue_thread = 0
    /\ qp_join = [c \in QueueCallers |-> 0]
    /\ qp_self_stop = [t \in QueueThreads |-> FALSE]
    /\ idle_calling = FALSE

\* no SentenceDetector run outside a turn
InitSegmenterOff ==
    /\ sd_pc = "off"
    /\ sd_chunks = <<>>
    /\ sd_buffer = <<>>
    /\ sd_sentences = <<>>
    /\ sd_text = <<>>
    /\ sd_final = <<>>
    /\ sd_synth_ok = <<>>

\* TimeoutManager.__init__: no timer thread yet
InitTimers ==
    /\ tm_handle = [n \in TimerNames |-> 0]
    /\ tm_thread = [a \in Armings |-> NoThread]
    /\ tm_calls = [a \in Armings |-> 0]
    /\ tm_cancelled_at = [a \in Armings |-> "never"]
    /\ tm_requested = "none"
    /\ tm_error = FALSE
    /\ tm_default = [n \in TimerNames |-> "default"]

\* no ConversationManager run
InitHistoryOff ==
    /\ cm_pc = "off"
    /\ max_entries = 0
    /\ entries = <<>>
    /\ save_file = <<>>
    /\ adds = 0
    /\ last_add_saved = FALSE

InitCore ==
    /\ InitProgram /\ InitSegmenterOff /\ InitTimers

Init == InitCore /\ InitHistoryOff

\* ------------------------------------------------------ VoiceChatbot.start
\* initialize() succeeded; start_ok is the result of WhisperSTT.start, stop_ok the
\* result of SleepManager.enter_deep_sleep
Start ==
    /\ started = "no"
    /\ \E start_mode \in StartModes, start_ok \in BOOLEAN, stop_ok \in BOOLEAN :
          IF start_mode = "listening"
          THEN IF start_ok
               THEN /\ SetView(set_state(whisper_start(View), "listening"))
                    /\ started' = "running"
               ELSE /\ SetView(View)
                    /\ started' = "failed"
          ELSE /\ started' = "running"
               /\ IF start_mode = "deep_sleep"
                  THEN SetView(enter_deep_sleep(View, stop_ok))
                  ELSE SetView(enter_light_sleep(View))
    /\ UNCHANGED <<configVars, segVars, timerVars, histVars, countVars, raceVars, qpVars, stop_pc, is_processing, response_queue, turnVars, closureVars,
                   queueVars, playVars, historyVars>>

\* ----------------------------------------------------- wake listener thread
\* ESP32WakeListener._is_running: the listener thread delivers wake signals until
\* VoiceChatbot.stop has stopped it
esp32_is_running == stop_pc \in {"off", "timers"}

\* VoiceChatbot.is_running, the loop condition of the response processor
is_running == started = "running" /\ stop_pc = "off"

OnWakeWordDetected ==
    /\ started = "running" /\ esp32_is_running
    /\ \E wake_ok \in BOOLEAN, start_ok \in BOOLEAN :
          SetView(on_wake_word_detected(View, wake_ok, start_ok))
    /\ UNCHANGED <<configVars, segVars, timerVars, histVars, countVars, raceVars, qpVars, stop_pc, started, is_processing, response_queue, turnVars,
                   closureVars, queueVars, playVars, historyVars>>

\* the same handler, for a wake signal that arrives in an active state, counted
OnWakeWordWhileActive ==
    /\ started = "running" /\ esp32_is_running
    /\ current_state \in ActiveStates
    /\ ignored_wakes < MaxIgnoredWakes
    /\ \E wake_ok \in BOOLEAN, start_ok \in BOOLEAN :
          SetView(on_wake_word_detected(View, wake_ok, start_ok))
    /\ ignored_wakes' = ignored_wakes + 1
    /\ UNCHANGED <<configVars, segVars, timerVars, histVars, countVars, raceVars, qpVars, stop_pc, started, is_processing, response_queue, turnVars,
                   closureVars, queueVars, playVars, decisions, wait_timeouts,
                   warned, complete_calls, speaking_sets, item_started, last_started,
                   wake_failures>>

\* the same handler, for a wake signal in deep sleep whose backend start fails
\* (SleepManager.wake_from_deep_sleep returns False), counted
OnWakeWordBackendFails ==
    /\ started = "running" /\ esp32_is_running
    /\ current_state = "deep_sleep"
    /\ ~wake_from_deep_sleep(View, FALSE)
    /\ wake_failures < MaxWakeFailures
    /\ \E start_ok \in BOOLEAN :
          SetView(on_wake_word_detected(View, FALSE, start_ok))
    /\ wake_failures' = wake_failures + 1
    /\ UNCHANGED <<configVars, segVars, timerVars, histVars, countVars, raceVars, qpVars, stop_pc, started, is_processing, response_queue, turnVars,
                   closureVars, queueVars, playVars, ignored_wakes, decisions,
                   wait_timeouts, warned, complete_calls, speaking_sets, item_started,
                   last_started>>

\* ------------------------------------------------ whisper recording thread
\* the recording loop delivers a transcription only while running and not paused;
\* a transcription the guard rejects changes nothing
OnTranscriptionReceived ==
    /\ started = "running"
    /\ whisper_is_running /\ ~whisper_is_paused
    /\ session + Len(response_queue) < MaxTurns
    /\ accepts_transcription(View, is_processing)
    /\ \E text \in Utterances :
          /\ SetView(on_transcription_received(View, text))
          /\ response_queue' = Append(response_queue, text)
    /\ UNCHANGED <<configVars, segVars, timerVars, histVars, countVars, raceVars, qpVars, stop_pc, started, is_processing, turnVars, closureVars,
                   queueVars, playVars, historyVars>>

\* ------------------------------------------------------------ timer threads
\* _on_conversation_timeout leaving the capture running
on_conversation_timeout_keeps_capture(v) ==
    set_state(start_idle_timer(stop_conversation_timer(v)), "light_sleep")

\* VoiceChatbot._on_conversation_timeout
on_conversation_timeout(v) == enter_light_sleep(v)

\* _on_idle_timeout without the transition to deep_sleep
on_idle_timeout_no_transition(v, stop_ok) ==
    [enter_deep_sleep(v, stop_ok) EXCEPT !.state = v.state]

\* VoiceChatbot._on_idle_timeout
on_idle_timeout(v, stop_ok) == enter_deep_sleep(v, stop_ok)

\* TimeoutManager._on_conversation_timeout -> VoiceChatbot._on_conversation_timeout
ConversationTimerFires ==
    /\ started = "running"
    /\ conv_timer # "none"
    /\ SetView(on_conversation_timeout(View))
    /\ UNCHANGED <<configVars, segVars, timerVars, histVars, countVars, raceVars, qpVars, stop_pc, started, is_processing, response_queue, turnVars,
                   closureVars, queueVars, playVars, historyVars>>

\* TimeoutManager._on_idle_timeout -> VoiceChatbot._on_idle_timeout
IdleTimerFires ==
    /\ started = "running"
    /\ idle_timer # "none"
    /\ \E stop_ok \in BOOLEAN : SetView(on_idle_timeout(View, stop_ok))
    /\ UNCHANGED <<configVars, segVars, timerVars, histVars, countVars, raceVars, qpVars, stop_pc, started, is_processing, response_queue, turnVars,
                   closureVars, queueVars, playVars, historyVars>>

\* ------------------------------------------------------------ AudioPlayer
\* enqueue_audio putting the item at the front of the queue
RECURSIVE EnqueueSentencesAtFront(_, _, _, _, _)
EnqueueSentencesAtFront(acc, sentences, oks, i, turn) ==
    IF i > Len(oks) THEN acc
    ELSE EnqueueSentencesAtFront(
             IF oks[i]
             THEN [queue |-> <<[session |-> turn, n |-> acc.count + 1,
                                text |-> sentences[i]]>> \o acc.queue,
                   count |-> acc.count + 1]
             ELSE acc,
             sentences, oks, i + 1, turn)

\* the loop of process_chunk with an except clause that leaves the loop
RECURSIVE EnqueueSentencesUntilFailure(_, _, _, _, _)
EnqueueSentencesUntilFailure(acc, sentences, oks, i, turn) ==
    IF i > Len(oks) \/ ~oks[i] THEN acc
    ELSE EnqueueSentencesUntilFailure(
             [queue |-> Append(acc.queue, [session |-> turn, n |-> acc.count + 1,
                                           text |-> sentences[i]]),
              count |-> acc.count + 1],
             sentences, oks, i + 1, turn)

\* the loop of StreamingTTSProcessor.process_chunk: AudioPlayer.enqueue_audio for
\* the sentences whose synthesis succeeded (oks[i]), the others are logged and
\* skipped; acc is [queue, count], the item carries the sentence as metadata text
RECURSIVE EnqueueSentences(_, _, _, _, _)
EnqueueSentences(acc, sentences, oks, i, turn) ==
    IF i > Len(oks) THEN acc
    ELSE EnqueueSentences(
             IF oks[i]
             THEN [queue |-> Append(acc.queue, [session |-> turn, n |-> acc.count + 1,
                                                text |-> sentences[i]]),
                   count |-> acc.count + 1]
             ELSE acc,
             sentences, oks, i + 1, turn)

\* the program run leaves the metadata text of its items out: only the run of the
\* StreamingTTSProcessor alone carries the sentences into the queue
NoTexts(sentences) == [i \in 1..Len(sentences) |-> <<>>]

\* AudioPlayer.start_queue_playback
StartQueuePlayback ==
    /\ generation_complete' = FALSE
    /\ enqueued_count' = 0
    /\ played_count' = 0
    /\ is_queue_active' = TRUE
    /\ wpc' = IF is_queue_active THEN wpc ELSE "poll"

\* AudioPlayer.stop_queue_playback(clear_queue=True); the join of the worker completes
StopQueuePlayback ==
    IF is_queue_active
    THEN /\ is_queue_active' = FALSE
         /\ playback_queue' = <<>>
         /\ wpc' = "off"
         /\ w_item' = NoItem
    ELSE UNCHANGED <<is_queue_active, playback_queue, wpc, w_item>>

\* ----------------------------------- response processor thread (streaming)
\* _process_responses -> _handle_user_input_streaming up to start_queue_playback
DispatchStreaming ==
    /\ is_running /\ use_streaming
    /\ rpc = "idle" /\ response_queue # <<>>
    /\ response_queue' = Tail(response_queue)
    /\ IF is_processing
       THEN UNCHANGED <<smVars, is_processing, turnVars, queueVars>>
       ELSE /\ is_processing' = TRUE
            /\ SetView(set_state(View, "processing"))
            /\ session' = session + 1
            /\ user_input' = Head(response_queue)
            /\ rpc' = "callbacks"
            /\ seg_buffer' = <<>>
            /\ full_response' = <<>>
            /\ chunks_received' = 0
            /\ StartQueuePlayback
            /\ UNCHANGED <<pending_chunks, playback_queue, on_chunk_start,
                           on_queue_complete, w_item>>
    /\ UNCHANGED <<configVars, segVars, timerVars, histVars, countVars, raceVars, qpVars, stop_pc, started, closureVars, playVars, historyVars>>

\* the callbacks are set after start_queue_playback; then the LLM stream is opened
SetCallbacks ==
    /\ rpc = "callbacks"
    /\ on_chunk_start' = session
    /\ on_queue_complete' = session
    /\ \E response \in StreamedResponses : pending_chunks' = response
    /\ rpc' = "streaming"
    /\ UNCHANGED <<configVars, segVars, timerVars, histVars, countVars, raceVars, qpVars, stop_pc, started, smVars, is_processing, response_queue, session,
                   user_input, chunks_received, seg_buffer, full_response, closureVars,
                   playback_queue, is_queue_active, generation_complete, enqueued_count,
                   played_count, wpc, w_item, playVars, historyVars>>

\* one iteration of the chunk loop: StreamingTTSProcessor.process_chunk
StreamChunk ==
    /\ rpc = "streaming" /\ pending_chunks # <<>>
    /\ LET chunk == Head(pending_chunks)
           res   == AddChunk(seg_buffer, chunk)
       IN  /\ full_response' = full_response \o chunk
           /\ seg_buffer' = res.buffer
           /\ \E oks \in [1..Len(res.sentences) -> BOOLEAN] :
                 LET q == EnqueueSentences([queue |-> playback_queue,
                                            count |-> enqueued_count],
                                           NoTexts(res.sentences), oks, 1, session)
                 IN  /\ playback_queue' = q.queue
                     /\ enqueued_count' = q.count
    /\ pending_chunks' = Tail(pending_chunks)
    /\ chunks_received' = chunks_received + 1
    /\ UNCHANGED <<configVars, segVars, timerVars, histVars, countVars, raceVars, qpVars, stop_pc, started, smVars, is_processing, response_queue, rpc,
                   session, user_input, closureVars, is_queue_active,
                   generation_complete, played_count, on_chunk_start, on_queue_complete,
                   wpc, w_item, playVars, historyVars>>

\* end of stream with chunks: finalize() and signal_generation_complete()
StreamEndSignal ==
    /\ rpc = "streaming" /\ pending_chunks = <<>> /\ chunks_received > 0
    /\ LET f == Flush(seg_buffer)
       IN  /\ seg_buffer' = f.buffer
           /\ \E ok \in BOOLEAN :
                 LET q == EnqueueSentences([queue |-> playback_queue,
                                            count |-> enqueued_count],
                                           NoTexts(<<f.sentence>>),
                                           IF f.sentence # <<>> THEN <<ok>> ELSE <<>>,
                                           1, session)
                 IN  /\ playback_queue' = q.queue
                     /\ enqueued_count' = q.count
    /\ generation_complete' = TRUE
    /\ rpc' = "waiting"
    /\ UNCHANGED <<configVars, segVars, timerVars, histVars, countVars, raceVars, qpVars, stop_pc, started, smVars, is_processing, response_queue, session,
                   user_input, pending_chunks, chunks_received, full_response,
                   closureVars, is_queue_active, played_count, on_chunk_start,
                   on_queue_complete, wpc, w_item, playVars, historyVars>>

\* end of stream without any chunk: the "No response chunks received" branch
StreamEndNoChunks ==
    /\ rpc = "streaming" /\ pending_chunks = <<>> /\ chunks_received = 0
    /\ StopQueuePlayback
    /\ SetView(resume_recording(set_state(View, "listening")))
    /\ is_processing' = FALSE
    /\ rpc' = "idle"
    /\ UNCHANGED <<configVars, segVars, timerVars, histVars, countVars, raceVars, qpVars, stop_pc, started, response_queue, session, user_input,
                   pending_chunks, chunks_received, seg_buffer, full_response,
                   closureVars, generation_complete, enqueued_count, played_count,
                   on_chunk_start, on_queue_complete, playVars, historyVars>>

\* after the wait loop: _handle_streaming_complete, the except clause when it raises,
\* and the finally clause
CompleteStreaming ==
    LET v == handle_streaming_complete(View, interaction_mode, full_response)
    IN  /\ IF v.raised
           THEN /\ StopQueuePlayback
                /\ SetView(set_state(v, "listening"))
           ELSE /\ SetView(v)
                /\ UNCHANGED <<is_queue_active, playback_queue, wpc, w_item>>
        /\ warned' = v.warned
        /\ decisions' = decisions + 1
        /\ is_processing' = FALSE
        /\ rpc' = "idle"
        /\ seg_buffer' = <<>>
        /\ full_response' = <<>>
        /\ UNCHANGED <<configVars, segVars, timerVars, histVars, countVars, raceVars, qpVars, stop_pc, started, response_queue, session, user_input,
                       pending_chunks, chunks_received, closureVars,
                       generation_complete, enqueued_count, played_count,
                       on_chunk_start, on_queue_complete, playVars, ignored_wakes,
                       complete_calls, speaking_sets, item_started, last_started,
                       wake_failures>>

\* the wait loop ends because on_queue_complete set queue_finished
StreamingCompleteQueueFinished ==
    /\ rpc = "waiting" /\ queue_finished[session]
    /\ CompleteStreaming
    /\ UNCHANGED wait_timeouts

\* the wait loop ends because 60 seconds have passed
StreamingCompleteTimeout ==
    /\ rpc = "waiting" /\ ~queue_finished[session]
    /\ wait_timeouts < MaxWaitTimeouts
    /\ wait_timeouts' = wait_timeouts + 1
    /\ CompleteStreaming

\* --------------------------------------------------- audio queue worker thread
\* on_first_chunk_start without its first_audio_played test
first_chunk_always_takes_effect(t) == TRUE

\* _handle_user_input_streaming.on_first_chunk_start of the closure of turn t:
\* TRUE when the call sets the state to speaking
first_chunk_takes_effect(t) == ~first_audio_played[t]

\* playback_queue.get() returned an item: on_chunk_start, then playback starts
WorkerStartItem ==
    /\ wpc = "poll" /\ is_queue_active /\ playback_queue # <<>>
    /\ w_item' = Head(playback_queue)
    /\ last_started' = Head(playback_queue)
    /\ playback_queue' = Tail(playback_queue)
    /\ wpc' = "playing"
    /\ IF on_chunk_start # 0
       THEN /\ item_started' = [item_started EXCEPT ![on_chunk_start] = TRUE]
            /\ IF first_chunk_takes_effect(on_chunk_start)
               THEN /\ first_audio_played' =
                           [first_audio_played EXCEPT ![on_chunk_start] = TRUE]
                    /\ SetView(pause_recording(set_state(View, "speaking")))
                    /\ speaking_sets' = [speaking_sets EXCEPT ![on_chunk_start] = @ + 1]
               ELSE UNCHANGED <<first_audio_played, smVars, speaking_sets>>
       ELSE UNCHANGED <<first_audio_played, smVars, speaking_sets, item_started>>
    /\ UNCHANGED <<configVars, segVars, timerVars, histVars, countVars, raceVars, qpVars, stop_pc, started, is_processing, response_queue, turnVars,
                   queue_finished, is_queue_active, generation_complete, enqueued_count,
                   played_count, on_chunk_start, on_queue_complete, playVars,
                   ignored_wakes, decisions, wait_timeouts, warned, complete_calls,
                   wake_failures>>

\* _play_blocking returned: played_count += 1 and cleanup
WorkerFinishItem ==
    /\ wpc = "playing"
    /\ played_count' = played_count + 1
    /\ w_item' = NoItem
    /\ wpc' = "poll"
    /\ UNCHANGED <<configVars, segVars, timerVars, histVars, countVars, raceVars, qpVars, stop_pc, started, smVars, is_processing, response_queue, turnVars,
                   closureVars, playback_queue, is_queue_active, generation_complete,
                   enqueued_count, on_chunk_start, on_queue_complete, playVars,
                   historyVars>>

\* the first test of the queue.Empty branch
first_check == /\ is_queue_active
               /\ generation_complete
               /\ played_count >= enqueued_count
               /\ playback_queue = <<>>

\* the test after the grace period
second_check == /\ played_count >= enqueued_count
                /\ playback_queue = <<>>
                /\ on_queue_complete # 0

\* playback_queue.get() timed out and the first test passed: the grace sleep begins
WorkerEmptyCheck ==
    /\ wpc = "poll" /\ is_queue_active /\ playback_queue = <<>>
    /\ first_check
    /\ wpc' = "grace"
    /\ UNCHANGED <<configVars, segVars, timerVars, histVars, countVars, raceVars, qpVars, stop_pc, started, smVars, is_processing, response_queue, turnVars,
                   closureVars, playback_queue, is_queue_active, generation_complete,
                   enqueued_count, played_count, on_chunk_start, on_queue_complete,
                   w_item, playVars, historyVars>>

\* after the grace sleep: the second test, on_queue_complete() and its reset
WorkerGraceRecheck ==
    /\ wpc = "grace"
    /\ wpc' = "poll"
    /\ IF second_check
       THEN /\ queue_finished' = [queue_finished EXCEPT ![on_queue_complete] = TRUE]
            /\ complete_calls' = [complete_calls EXCEPT ![on_queue_complete] = @ + 1]
            /\ on_queue_complete' = 0
       ELSE UNCHANGED <<queue_finished, complete_calls, on_queue_complete>>
    /\ UNCHANGED <<configVars, segVars, timerVars, histVars, countVars, raceVars, qpVars, stop_pc, started, smVars, is_processing, response_queue, turnVars,
                   first_audio_played, playback_queue, is_queue_active,
                   generation_complete, enqueued_count, played_count, on_chunk_start,
                   w_item, playVars, ignored_wakes, decisions, wait_timeouts, warned,
                   speaking_sets, item_started, last_started, wake_failures>>

\* ------------------------------------ response processor thread (blocking)
\* _process_responses -> _handle_user_input_blocking up to generate_response
DispatchBlocking ==
    /\ is_running /\ ~use_streaming
    /\ rpc = "idle" /\ response_queue # <<>>
    /\ response_queue' = Tail(response_queue)
    /\ IF is_processing
       THEN UNCHANGED <<smVars, is_processing, turnVars>>
       ELSE /\ is_processing' = TRUE
            /\ SetView(set_state(View, "processing"))
            /\ session' = session + 1
            /\ user_input' = Head(response_queue)
            /\ rpc' = "generating"
            /\ UNCHANGED <<pending_chunks, chunks_received, seg_buffer, full_response>>
    /\ UNCHANGED <<configVars, segVars, timerVars, histVars, countVars, raceVars, qpVars, stop_pc, started, closureVars, queueVars, playVars, historyVars>>

\* generate_response, synthesize_to_temp, _play_response (play() runs on_start and
\* starts the playback thread, or returns False before on_start when the file is
\* missing; its result is not looked at) or the failure branches, and the finally
\* clause
BlockingRespond ==
    /\ rpc = "generating"
    /\ \E ai_response \in BlockingResponses, synth_ok \in BOOLEAN, play_ok \in BOOLEAN :
          IF ai_response # <<>> /\ synth_ok
          THEN IF play_ok
               THEN /\ SetView(on_start(View))
                    /\ ppc' = "playing"
                    /\ p_text' = ai_response
               ELSE /\ SetView(View)
                    /\ UNCHANGED playVars
          ELSE /\ SetView(set_state(View, "listening"))
               /\ UNCHANGED playVars
    /\ is_processing' = FALSE
    /\ rpc' = "idle"
    /\ UNCHANGED <<configVars, segVars, timerVars, histVars, countVars, raceVars, qpVars, stop_pc, started, response_queue, session, user_input,
                   pending_chunks, chunks_received, seg_buffer, full_response,
                   closureVars, queueVars, historyVars>>

\* ---------------------------------------- playback thread (blocking path)
\* _play_non_blocking: playback ended, on_finish runs; an exception it raises is
\* caught and logged by _play_non_blocking.  When loading or playing the file
\* raises (load_ok false) the thread ends without running on_finish.
PlaybackFinished ==
    /\ ppc = "playing"
    /\ \E load_ok \in BOOLEAN :
          IF load_ok
          THEN /\ LET v == on_finish(View, interaction_mode, p_text)
                  IN  /\ SetView(v)
                      /\ warned' = v.warned
               /\ decisions' = decisions + 1
          ELSE /\ SetView(View)
               /\ UNCHANGED <<warned, decisions>>
    /\ ppc' = "idle"
    /\ p_text' = <<>>
    /\ UNCHANGED <<configVars, segVars, timerVars, histVars, countVars, raceVars, qpVars, stop_pc, started, is_processing, response_queue, turnVars,
                   closureVars, queueVars, ignored_wakes, wait_timeouts, complete_calls,
                   speaking_sets, item_started, last_started, wake_failures>>

\* ------------------------------------------------------- VoiceChatbot.stop
\* is_running = False and timeout_manager.stop_all_timers()
StopTimers ==
    /\ started = "running" /\ stop_pc = "off"
    /\ stop_pc' = "timers"
    /\ SetView(stop_all_timers(View))
    /\ UNCHANGED <<configVars, segVars, timerVars, histVars, countVars, raceVars, qpVars, started, is_processing, response_queue,
                   turnVars, closureVars, queueVars, playVars, historyVars>>

\* esp32_listener.stop(): the listener thread is signalled and joined
StopListener ==
    /\ stop_pc = "timers"
    /\ stop_pc' = "listener"
    /\ UNCHANGED <<configVars, segVars, timerVars, histVars, countVars, raceVars, qpVars, started, smVars, is_processing,
                   response_queue, turnVars, closureVars, queueVars, playVars,
                   historyVars>>

\* whisper_stt.stop(): the recording thread is signalled and joined
StopWhisper ==
    /\ stop_pc = "listener"
    /\ stop_pc' = "whisper"
    /\ SetView(whisper_stop(View))
    /\ UNCHANGED <<configVars, segVars, timerVars, histVars, countVars, raceVars, qpVars, started, is_processing, response_queue,
                   turnVars, closureVars, queueVars, playVars, historyVars>>

\* audio_player.stop(): the playback in progress is stopped, its thread ends
\* without running on_finish; the queue and its worker are not touched
StopPlayer ==
    /\ stop_pc = "whisper"
    /\ stop_pc' = "player"
    /\ ppc' = "idle"
    /\ p_text' = <<>>
    /\ UNCHANGED <<configVars, segVars, timerVars, histVars, countVars, raceVars, qpVars, started, smVars, is_processing,
                   response_queue, turnVars, closureVars, queueVars, historyVars>>

\* the backend is started again when the state is deep_sleep
StopWakeBackend ==
    /\ stop_pc = "player"
    /\ stop_pc' = "woken"
    /\ \E wake_ok \in BOOLEAN :
          SetView(IF View.state = "deep_sleep"
                  THEN [View EXCEPT !.ollama = wake_from_deep_sleep(View, wake_ok)]
                  ELSE View)
    /\ UNCHANGED <<configVars, segVars, timerVars, histVars, countVars, raceVars, qpVars, started, is_processing, response_queue,
                   turnVars, closureVars, queueVars, playVars, historyVars>>

\* conversation_manager.save_conversation(), the last step
StopSave ==
    /\ stop_pc = "woken"
    /\ stop_pc' = "done"
    /\ UNCHANGED <<configVars, segVars, timerVars, histVars, countVars, raceVars, qpVars, started, smVars, is_processing,
                   response_queue, turnVars, closureVars, queueVars, playVars,
                   historyVars>>

\* ------------------------------------------------------------------- Spec
Next ==
    \/ Start
    \/ OnWakeWordDetected
    \/ OnTranscriptionReceived
    \/ ConversationTimerFires
    \/ IdleTimerFires
    \/ DispatchStreaming
    \/ SetCallbacks
    \/ StreamChunk
    \/ StreamEndSignal
    \/ StreamEndNoChunks
    \/ StreamingCompleteQueueFinished
    \/ StreamingCompleteTimeout
    \/ WorkerStartItem
    \/ WorkerFinishItem
    \/ WorkerEmptyCheck
    \/ WorkerGraceRecheck
    \/ DispatchBlocking
    \/ BlockingRespond
    \/ PlaybackFinished

Spec == Init /\ [][Next]_vars

\* ------------------------------------------- a run of the SentenceDetector
\* the characters of the fragments: a letter, a blank and a sentence ending
SegAlphabet == {"a", " ", "."}

Fragments == UNION {[1..k -> SegAlphabet] : k \in 1..MaxFragLen}

FragmentRuns == UNION {[1..k -> Fragments] : k \in 0..MaxFragments}

\* a new SentenceDetector and the fragments an LLM stream will yield
InitSeg ==
    /\ InitProgram /\ InitHistoryOff
    /\ interaction_mode = "conversation" /\ use_streaming
    /\ InitTimers
    /\ sd_pc = "feeding"
    /\ sd_chunks \in FragmentRuns
    /\ sd_buffer = <<>>
    /\ sd_sentences = <<>>
    /\ sd_text = <<>>
    /\ sd_final = <<>>
    /\ sd_synth_ok = <<>>

\* SentenceDetector.add_chunk on the next fragment
SdAddChunk ==
    /\ sd_pc = "feeding" /\ sd_chunks # <<>>
    /\ LET res == AddChunk(sd_buffer, Head(sd_chunks))
       IN  /\ sd_buffer' = res.buffer
           /\ sd_sentences' = sd_sentences \o res.sentences
    /\ sd_text' = sd_text \o Head(sd_chunks)
    /\ sd_chunks' = Tail(sd_chunks)
    /\ UNCHANGED <<sd_pc, sd_final, sd_synth_ok, programVars, timerVars>>

\* SentenceDetector.flush at the end of the stream
SdFlush ==
    /\ sd_pc = "feeding" /\ sd_chunks = <<>>
    /\ LET f == Flush(sd_buffer)
       IN  /\ sd_final' = f.sentence
           /\ sd_buffer' = f.buffer
    /\ sd_pc' = "flushed"
    /\ UNCHANGED <<sd_chunks, sd_sentences, sd_text, sd_synth_ok, programVars, timerVars>>

NextSeg ==
    \/ SdAddChunk
    \/ SdFlush

SpecSeg == InitSeg /\ [][NextSeg]_vars

\* ------------------------------------------ a run of the StreamingTTSProcessor
\* the chunks an LLM stream yields: two sentences in one chunk, one sentence, a text
\* without ending and a sentence shorter than min_sentence_length
TtsChunks ==
    { <<"a", "a", ".", "b", "b", ".">>, <<"c", "c", ".">>, <<" ", "d", "d">>,
      <<"e", ".">> }

TtsStreams == UNION {[1..k -> TtsChunks] : k \in 0..MaxTtsChunks}

\* a new StreamingTTSProcessor on a started, empty queue and the stream it will read
InitTts ==
    /\ InitProgram /\ InitHistoryOff
    /\ interaction_mode = "conversation" /\ use_streaming
    /\ InitTimers
    /\ sd_pc = "synthesizing"
    /\ sd_chunks \in TtsStreams
    /\ sd_buffer = <<>>
    /\ sd_sentences = <<>>
    /\ sd_text = <<>>
    /\ sd_final = <<>>
    /\ sd_synth_ok = <<>>

\* one iteration of the chunk loop of _handle_user_input_streaming:
\* StreamingTTSProcessor.process_chunk, synthesis failing or raising on ~oks[i]
TtsProcessChunk ==
    /\ sd_pc = "synthesizing" /\ sd_chunks # <<>>
    /\ LET chunk == Head(sd_chunks)
           res   == AddChunk(sd_buffer, chunk)
       IN  /\ sd_text' = sd_text \o chunk
           /\ sd_buffer' = res.buffer
           /\ sd_sentences' = sd_sentences \o res.sentences
           /\ \E oks \in [1..Len(res.sentences) -> BOOLEAN] :
                 LET q == EnqueueSentences([queue |-> playback_queue,
                                            count |-> enqueued_count],
                                           res.sentences, oks, 1, 1)
                 IN  /\ playback_queue' = q.queue
                     /\ enqueued_count' = q.count
                     /\ sd_synth_ok' = sd_synth_ok \o oks
    /\ sd_chunks' = Tail(sd_chunks)
    /\ chunks_received' = chunks_received + 1
    /\ UNCHANGED <<sd_pc, sd_final, generation_complete>>
    /\ UNCHANGED <<configVars, timerVars, histVars, countVars, raceVars, qpVars, stop_pc, started,
                   smVars, is_processing, response_queue, rpc, session, user_input,
                   pending_chunks, seg_buffer, full_response, closureVars,
                   is_queue_active, played_count, on_chunk_start, on_queue_complete,
                   wpc, w_item, playVars, historyVars>>

\* the end of the stream: StreamingTTSProcessor.finalize, then
\* signal_generation_complete when chunks were received
TtsFinalize ==
    /\ sd_pc = "synthesizing" /\ sd_chunks = <<>>
    /\ LET f    == Flush(sd_buffer)
           rest == IF f.sentence # <<>> THEN <<f.sentence>> ELSE <<>>
       IN  /\ sd_final' = f.sentence
           /\ sd_buffer' = f.buffer
           /\ sd_sentences' = sd_sentences \o rest
           /\ \E oks \in [1..Len(rest) -> BOOLEAN] :
                 LET q == EnqueueSentences([queue |-> playback_queue,
                                            count |-> enqueued_count],
                                           rest, oks, 1, 1)
                 IN  /\ playback_queue' = q.queue
                     /\ enqueued_count' = q.count
                     /\ sd_synth_ok' = sd_synth_ok \o oks
    /\ generation_complete' = (generation_complete \/ chunks_received > 0)
    /\ sd_pc' = "finalized"
    /\ UNCHANGED <<sd_chunks, sd_text, chunks_received>>
    /\ UNCHANGED <<configVars, timerVars, histVars, countVars, raceVars, qpVars, stop_pc, started,
                   smVars, is_processing, response_queue, rpc, session, user_input,
                   pending_chunks, seg_buffer, full_response, closureVars,
                   is_queue_active, played_count, on_chunk_start, on_queue_complete,
                   wpc, w_item, playVars, historyVars>>

NextTts ==
    \/ TtsProcessChunk
    \/ TtsFinalize

SpecTts == InitTts /\ [][NextTts]_vars

\* ------------------------------------------------ a run of the AudioPlayer queue
\* what a run of the player alone leaves as it is
qpFrame == <<configVars, segVars, timerVars, histVars, countVars, raceVars, stop_pc,
             started, smVars, is_processing, response_queue, turnVars, closureVars,
             wpc, w_item, playVars, historyVars>>

\* Thread.is_alive() of worker thread t
is_alive(t) == qp_pc[t] \notin {"unborn", "exited"}

\* stop_queue_playback entered by caller c: the thread its join(timeout=2.0) waits
\* for, 0 when the call does not join
join_target(c) ==
    IF /\ is_queue_active
       /\ qp_queue_thread # 0 /\ is_alive(qp_queue_thread)
       /\ c # qp_queue_thread
    THEN qp_queue_thread
    ELSE 0

\* AudioPlayer.stop_queue_playback(clear_queue=True) called by c, up to its join;
\* stop() ends the playback of the current file and leaves the queue state alone
stop_queue_playback(c) ==
    /\ qp_join' = [qp_join EXCEPT ![c] = join_target(c)]
    /\ IF is_queue_active
       THEN /\ is_queue_active' = FALSE
            /\ playback_queue' = <<>>
       ELSE UNCHANGED <<is_queue_active, playback_queue>>

\* a callback run by worker t that may call stop_queue_playback
callback(t) ==
    \E stops \in BOOLEAN :
        IF stops
        THEN /\ stop_queue_playback(t)
             /\ qp_self_stop' = [qp_self_stop EXCEPT ![t] = TRUE]
        ELSE UNCHANGED <<qp_join, is_queue_active, playback_queue, qp_self_stop>>

\* AudioPlayer.start_queue_playback called by another thread
QpStart ==
    /\ is_queue_active \/ \E t \in QueueThreads : qp_pc[t] = "unborn"
    /\ generation_complete' = FALSE
    /\ enqueued_count' = 0
    /\ played_count' = 0
    /\ IF ~is_queue_active
       THEN LET t == Min({u \in QueueThreads : qp_pc[u] = "unborn"})
            IN  /\ is_queue_active' = TRUE
                /\ qp_queue_thread' = t
                /\ qp_pc' = [qp_pc EXCEPT ![t] = "test"]
       ELSE UNCHANGED <<is_queue_active, qp_queue_thread, qp_pc>>
    /\ UNCHANGED <<playback_queue, on_chunk_start, on_queue_complete, qp_join,
                   qp_self_stop, qpFrame>>

\* the owner of the player sets both callbacks
QpSetCallbacks ==
    /\ on_chunk_start = 0 \/ on_queue_complete = 0
    /\ on_chunk_start' = 1
    /\ on_queue_complete' = 1
    /\ UNCHANGED <<playback_queue, is_queue_active, generation_complete, enqueued_count,
                   played_count, qpVars, qpFrame>>

\* AudioPlayer.enqueue_audio called by another thread
QpEnqueue ==
    /\ Len(playback_queue) < MaxQueueItems /\ enqueued_count < MaxQueueItems
    /\ playback_queue' = Append(playback_queue,
                                [session |-> 1, n |-> enqueued_count + 1, text |-> <<>>])
    /\ enqueued_count' = enqueued_count + 1
    /\ UNCHANGED <<is_queue_active, generation_complete, played_count, on_chunk_start,
                   on_queue_complete, qpVars, qpFrame>>

\* AudioPlayer.signal_generation_complete called by another thread
QpSignalGenerationComplete ==
    /\ ~generation_complete
    /\ generation_complete' = TRUE
    /\ UNCHANGED <<playback_queue, is_queue_active, enqueued_count, played_count,
                   on_chunk_start, on_queue_complete, qpVars, qpFrame>>

\* stop_queue_playback called by a thread that is not a queue worker
QpStopFromOutside ==
    /\ qp_join[0] = 0
    /\ stop_queue_playback(0)
    /\ UNCHANGED <<generation_complete, enqueued_count, played_count, on_chunk_start,
                   on_queue_complete, qp_pc, qp_queue_thread, qp_self_stop, qpFrame>>

\* join(timeout=2.0) returns to caller c: the thread ended or the two seconds passed
QpJoinReturns(c) ==
    /\ qp_join[c] # 0
    /\ qp_join' = [qp_join EXCEPT ![c] = 0]
    /\ UNCHANGED <<playback_queue, is_queue_active, generation_complete, enqueued_count,
                   played_count, on_chunk_start, on_queue_complete, qp_pc,
                   qp_queue_thread, qp_self_stop, qpFrame>>

\* worker t tests "while self.is_queue_active"
QpLoopTest(t) ==
    /\ qp_pc[t] = "test"
    /\ qp_pc' = [qp_pc EXCEPT ![t] = IF is_queue_active THEN "get" ELSE "finally"]
    /\ qp_self_stop' = [qp_self_stop EXCEPT ![t] = FALSE]
    /\ UNCHANGED <<playback_queue, is_queue_active, generation_complete, enqueued_count,
                   played_count, on_chunk_start, on_queue_complete, qp_queue_thread,
                   qp_join, qpFrame>>

\* the finally clause of _queue_processor_thread
QpExit(t) ==
    /\ qp_pc[t] = "finally"
    /\ is_queue_active' = FALSE
    /\ qp_pc' = [qp_pc EXCEPT ![t] = "exited"]
    /\ UNCHANGED <<playback_queue, generation_complete, enqueued_count, played_count,
                   on_chunk_start, on_queue_complete, qp_queue_thread, qp_join,
                   qp_self_stop, qpFrame>>

\* playback_queue.get(timeout=0.5) of worker t returns an item or raises queue.Empty
QpGet(t) ==
    /\ qp_pc[t] = "get"
    /\ IF playback_queue # <<>>
       THEN /\ playback_queue' = Tail(playback_queue)
            /\ qp_pc' = [qp_pc EXCEPT ![t] =
                             IF on_chunk_start # 0 THEN "chunk_callback" ELSE "playing"]
       ELSE /\ qp_pc' = [qp_pc EXCEPT ![t] = IF first_check THEN "grace" ELSE "test"]
            /\ UNCHANGED playback_queue
    /\ UNCHANGED <<is_queue_active, generation_complete, enqueued_count, played_count,
                   on_chunk_start, on_queue_complete, qp_queue_thread, qp_join,
                   qp_self_stop, qpFrame>>

\* worker t runs on_chunk_start(metadata) before it plays the item
QpChunkCallback(t) ==
    /\ qp_pc[t] = "chunk_callback"
    /\ callback(t)
    /\ qp_pc' = [qp_pc EXCEPT ![t] = "playing"]
    /\ UNCHANGED <<generation_complete, enqueued_count, played_count, on_chunk_start,
                   on_queue_complete, qp_queue_thread, qpFrame>>

\* _play_blocking returned to worker t: played_count += 1, back to the loop test
QpFinishItem(t) ==
    /\ qp_pc[t] = "playing" /\ qp_join[t] = 0
    /\ played_count' = played_count + 1
    /\ qp_pc' = [qp_pc EXCEPT ![t] = "test"]
    /\ UNCHANGED <<playback_queue, is_queue_active, generation_complete, enqueued_count,
                   on_chunk_start, on_queue_complete, qp_queue_thread, qp_join,
                   qp_self_stop, qpFrame>>

\* worker t after the grace sleep: the second test, on_queue_complete() and its reset
QpGraceRecheck(t) ==
    /\ qp_pc[t] = "grace"
    /\ IF second_check
       THEN /\ callback(t)
            /\ on_queue_complete' = 0
            /\ qp_pc' = [qp_pc EXCEPT ![t] = "completed"]
       ELSE /\ qp_pc' = [qp_pc EXCEPT ![t] = "test"]
            /\ UNCHANGED <<on_queue_complete, qp_join, is_queue_active, playback_queue,
                           qp_self_stop>>
    /\ UNCHANGED <<generation_complete, enqueued_count, played_count, on_chunk_start,
                   qp_queue_thread, qpFrame>>

\* on_queue_complete returned to worker t: "continue"
QpCallbackReturned(t) ==
    /\ qp_pc[t] = "completed" /\ qp_join[t] = 0
    /\ qp_pc' = [qp_pc EXCEPT ![t] = "test"]
    /\ UNCHANGED <<playback_queue, is_queue_active, generation_complete, enqueued_count,
                   played_count, on_chunk_start, on_queue_complete, qp_queue_thread,
                   qp_join, qp_self_stop, qpFrame>>

InitPlayer == InitProgram /\ InitHistoryOff /\ InitSegmenterOff /\ InitTimers
              /\ interaction_mode = "conversation" /\ use_streaming

NextPlayer ==
    \/ QpStart
    \/ QpSetCallbacks
    \/ QpEnqueue
    \/ QpSignalGenerationComplete
    \/ QpStopFromOutside
    \/ \E c \in QueueCallers : QpJoinReturns(c)
    \/ \E t \in QueueThreads : QpLoopTest(t)
    \/ \E t \in QueueThreads : QpExit(t)
    \/ \E t \in QueueThreads : QpGet(t)
    \/ \E t \in QueueThreads : QpChunkCallback(t)
    \/ \E t \in QueueThreads : QpFinishItem(t)
    \/ \E t \in QueueThreads : QpGraceRecheck(t)
    \/ \E t \in QueueThreads : QpCallbackReturned(t)

SpecPlayer == InitPlayer /\ [][NextPlayer]_vars

\* ------------------------------------------------- a run of the TimeoutManager
\* threading.Timer.cancel(): the thread's finished event is set
timer_cancel_forgotten(th) == th

timer_cancel(th) == [th EXCEPT !.finished = TRUE]

\* the threads after a start call that arms a for name n without cancelling the
\* timer the handle h refers to
start_timer_keeps_prior(threads, h, a, n, duration) ==
    [threads EXCEPT ![a] = [name |-> n, pc |-> "waiting", finished |-> FALSE,
                            duration |-> duration]]

\* the threads after start_conversation_timer / start_idle_timer: the timer the
\* handle h refers to (0: None) is cancelled, a new thread a is created and started
start_timer(threads, h, a, n, duration) ==
    [b \in Armings |->
        IF b = a THEN [name |-> n, pc |-> "waiting", finished |-> FALSE,
                       duration |-> duration]
        ELSE IF b = h THEN timer_cancel(threads[b])
        ELSE threads[b]]

\* _on_conversation_timeout / _on_idle_timeout without the call of the callback
on_timer_timeout_no_callback(calls) == calls

\* _on_conversation_timeout / _on_idle_timeout: the registered callback is called
on_timer_timeout(calls) == calls + 1

\* where the thread of arming h was when cancel() was first called on it
note_cancel(h) ==
    IF h # 0 /\ tm_cancelled_at[h] = "never"
    THEN [tm_cancelled_at EXCEPT ![h] = tm_thread[h].pc]
    ELSE tm_cancelled_at

\* the interaction program is at rest while the TimeoutManager is run
InitTimer ==
    /\ InitProgram /\ InitHistoryOff
    /\ interaction_mode = "smart" /\ use_streaming
    /\ InitSegmenterOff
    /\ InitTimers

\* start_conversation_timer(**kwargs) / start_idle_timer(): a keyword argument is a
\* TypeError raised before the lock is taken
TmStart(n, kwargs) ==
    /\ tm_requested' = IF kwargs = {} THEN "default" ELSE "followup"
    /\ IF kwargs # {}
       THEN /\ tm_error' = TRUE
            /\ UNCHANGED <<tm_handle, tm_thread, tm_calls, tm_cancelled_at, tm_default>>
       ELSE /\ \E a \in Armings :
                 /\ tm_thread[a].pc = "unused"
                 /\ \A b \in Armings : b < a => tm_thread[b].pc # "unused"
                 /\ tm_thread' = start_timer(tm_thread, tm_handle[n], a, n, tm_default[n])
                 /\ tm_handle' = [tm_handle EXCEPT ![n] = a]
            /\ tm_cancelled_at' = note_cancel(tm_handle[n])
            /\ tm_error' = FALSE
            /\ UNCHANGED <<tm_calls, tm_default>>
    /\ UNCHANGED <<programVars, segVars>>

TmStartConversation == \E kwargs \in {{}, {"timeout"}} : TmStart("conversation", kwargs)

TmStartIdle == TmStart("idle", {})

\* reset_conversation_timer / reset_idle_timer
TmReset(n) ==
    /\ tm_handle[n] # 0
    /\ tm_thread' = [tm_thread EXCEPT ![tm_handle[n]] = timer_cancel(@)]
    /\ tm_cancelled_at' = note_cancel(tm_handle[n])
    /\ tm_handle' = [tm_handle EXCEPT ![n] = 0]
    /\ UNCHANGED <<tm_calls, tm_requested, tm_error, tm_default, programVars, segVars>>

TmResetTimer == \E n \in TimerNames : TmReset(n)

\* stop_conversation_timer / stop_idle_timer (stop_all_timers calls one after the other)
TmStop(n) ==
    /\ tm_handle[n] # 0
    /\ tm_thread' = [tm_thread EXCEPT ![tm_handle[n]] = timer_cancel(@)]
    /\ tm_cancelled_at' = note_cancel(tm_handle[n])
    /\ tm_handle' = [tm_handle EXCEPT ![n] = 0]
    /\ UNCHANGED <<tm_calls, tm_requested, tm_error, tm_default, programVars, segVars>>

TmStopTimer == \E n \in TimerNames : TmStop(n)

\* the timer thread: finished.wait(interval) returns, because the interval has
\* passed or because the event was set, and finished.is_set() is tested
TimerExpire ==
    /\ \E a \in Armings :
          /\ tm_thread[a].pc = "waiting"
          /\ tm_thread' = [tm_thread EXCEPT
                               ![a].pc = IF tm_thread[a].finished THEN "done" ELSE "calling"]
    /\ UNCHANGED <<tm_handle, tm_calls, tm_cancelled_at, tm_requested, tm_error,
                   tm_default, programVars, segVars>>

\* the timer thread: the test passed, _on_conversation_timeout / _on_idle_timeout
\* runs and the thread ends
TimerCall ==
    /\ \E a \in Armings :
          /\ tm_thread[a].pc = "calling"
          /\ tm_calls' = [tm_calls EXCEPT ![a] = on_timer_timeout(@)]
          /\ tm_thread' = [tm_thread EXCEPT ![a].pc = "done", ![a].finished = TRUE]
    /\ UNCHANGED <<tm_handle, tm_cancelled_at, tm_requested, tm_error, tm_default,
                   programVars, segVars>>

NextTimer ==
    \/ TmStartConversation
    \/ TmStartIdle
    \/ TmResetTimer
    \/ TmStopTimer
    \/ TimerExpire
    \/ TimerCall

SpecTimer == InitTimer /\ [][NextTimer]_vars

\* ------------------------------------------ a run of the ConversationManager
\* Python's seq[-n:]: the last n elements, and all of them when n is 0
LastN(seq, n) == IF n = 0 \/ n >= Len(seq) THEN seq ELSE SubSeq(seq, Len(seq) - n + 1, Len(seq))

\* the trimming step of add_entry
trim(es, n) == IF Len(es) > n THEN LastN(es, n) ELSE es

Roles == {"user", "assistant"}

\* a stored history of k entries, numbered in the order they were added; the
\* numbers end at MaxFileLen and the entries added in the run go on from there
StoredHistory(k) ==
    [i \in 1..k |-> [role |-> IF i % 2 = 1 THEN "user" ELSE "assistant",
                     n |-> MaxFileLen - k + i]]

\* the file was written by an earlier run, whose max_entries may have been larger
InitHistory ==
    /\ InitCore
    /\ interaction_mode = "conversation" /\ use_streaming
    /\ cm_pc = "new"
    /\ max_entries \in 1..MaxEntries
    /\ entries = <<>>
    /\ \E k \in 0..MaxFileLen : save_file = StoredHistory(k)
    /\ adds = 0
    /\ last_add_saved = FALSE

\* ConversationManager.__init__ and load_conversation; an exception while reading
\* the file (load_ok false) is logged and leaves the entries empty
CmInit ==
    /\ cm_pc = "new"
    /\ cm_pc' = "ready"
    /\ \E load_ok \in BOOLEAN :
          entries' = IF save_file # <<>> /\ load_ok THEN save_file ELSE <<>>
    /\ UNCHANGED <<max_entries, save_file, adds, last_add_saved, coreVars, segVars,
                   timerVars>>

\* ConversationManager.add_entry; save_ok false: save_conversation caught an exception
AddEntry ==
    /\ cm_pc = "ready"
    /\ adds < MaxAdds
    /\ \E role \in Roles, save_ok \in BOOLEAN :
          LET es == trim(Append(entries, [role |-> role, n |-> MaxFileLen + adds + 1]),
                         max_entries)
          IN  /\ entries' = es
              /\ save_file' = IF save_ok THEN es ELSE save_file
              /\ last_add_saved' = save_ok
    /\ adds' = adds + 1
    /\ UNCHANGED <<cm_pc, max_entries, coreVars, segVars, timerVars>>

NextHistory ==
    \/ CmInit
    \/ AddEntry

SpecHistory == InitHistory /\ [][NextHistory]_vars

\* ----------------------------------------------------- timeouts, counted
\* the conversation timer fires while the state is listening, counted
ConversationTimeoutInListening ==
    /\ started = "running"
    /\ conv_timer # "none"
    /\ current_state = "listening"
    /\ conv_timeouts < MaxTimeouts
    /\ SetView(on_conversation_timeout(View))
    /\ conv_timeouts' = conv_timeouts + 1
    /\ UNCHANGED <<configVars, segVars, timerVars, histVars, qpVars, raceVars, idle_timeouts,
                   stop_pc, started, is_processing, response_queue, turnVars,
                   closureVars, queueVars, playVars, historyVars>>

\* the idle timer fires while the state is light_sleep, counted
IdleTimeoutInLightSleep ==
    /\ started = "running"
    /\ idle_timer # "none"
    /\ current_state = "light_sleep"
    /\ idle_timeouts < MaxTimeouts
    /\ \E stop_ok \in BOOLEAN : SetView(on_idle_timeout(View, stop_ok))
    /\ idle_timeouts' = idle_timeouts + 1
    /\ UNCHANGED <<configVars, segVars, timerVars, histVars, qpVars, raceVars, conv_timeouts,
                   stop_pc, started, is_processing, response_queue, turnVars,
                   closureVars, queueVars, playVars, historyVars>>

NextTimeouts ==
    \/ Next /\ session' <= MaxTimeoutTurns
    \/ ConversationTimeoutInListening
    \/ IdleTimeoutInLightSleep

SpecTimeouts == Init /\ [][NextTimeouts]_vars

\* ------------------------------ timer threads between their test and their call
\* the conversation timer thread: the interval has passed and finished.is_set() was
\* false; the handle still refers to the timer
ConversationTimerExpires ==
    /\ started = "running"
    /\ conv_timer # "none" /\ ~conv_calling
    /\ conv_calling' = TRUE
    /\ UNCHANGED <<configVars, segVars, timerVars, histVars, qpVars, countVars, idle_calling, stop_pc, started, smVars,
                   is_processing, response_queue, turnVars, closureVars, queueVars,
                   playVars, historyVars>>

\* the same thread calls _on_conversation_timeout, whatever happened to the handle
ConversationCallbackRuns ==
    /\ conv_calling
    /\ conv_calling' = FALSE
    /\ SetView(on_conversation_timeout(View))
    /\ UNCHANGED <<configVars, segVars, timerVars, histVars, qpVars, countVars, idle_calling, stop_pc, started,
                   is_processing, response_queue, turnVars, closureVars, queueVars,
                   playVars, historyVars>>

\* the idle timer thread: the interval has passed and finished.is_set() was false
IdleTimerExpires ==
    /\ started = "running"
    /\ idle_timer # "none" /\ ~idle_calling
    /\ idle_calling' = TRUE
    /\ UNCHANGED <<configVars, segVars, timerVars, histVars, qpVars, countVars, conv_calling, stop_pc, started, smVars,
                   is_processing, response_queue, turnVars, closureVars, queueVars,
                   playVars, historyVars>>

\* the same thread calls _on_idle_timeout, whatever happened to the handle
IdleCallbackRuns ==
    /\ idle_calling
    /\ idle_calling' = FALSE
    /\ \E stop_ok \in BOOLEAN : SetView(on_idle_timeout(View, stop_ok))
    /\ UNCHANGED <<configVars, segVars, timerVars, histVars, qpVars, countVars, conv_calling, stop_pc, started,
                   is_processing, response_queue, turnVars, closureVars, queueVars,
                   playVars, historyVars>>

\* the same program with the timer threads taking their test and their call in
\* two steps
NextRace ==
    \/ Next /\ session' <= MaxRaceTurns
    \/ ConversationTimerExpires
    \/ ConversationCallbackRuns
    \/ IdleTimerExpires
    \/ IdleCallbackRuns

SpecRace == Init /\ [][NextRace]_vars

\* the same program with a call of VoiceChatbot.stop at any moment
NextStop ==
    \/ Next /\ session' <= MaxStopTurns
    \/ StopTimers
    \/ StopListener
    \/ StopWhisper
    \/ StopPlayer
    \/ StopWakeBackend
    \/ StopSave

SpecStop == Init /\ [][NextStop]_vars

\* the same program with the wake signals that arrive in an active state, and those
\* whose backend start fails, counted
NextWake ==
    \/ Next /\ session' <= MaxWakeTurns
    \/ OnWakeWordWhileActive
    \/ OnWakeWordBackendFails

SpecWake == Init /\ [][NextWake]_vars

TypeOK ==
    /\ interaction_mode \in InteractionModes
    /\ use_streaming \in BOOLEAN
    /\ started \in {"no", "running", "failed"}
    /\ qp_pc \in [QueueThreads -> {"unborn", "test", "get", "chunk_callback", "playing",
                                   "grace", "completed", "finally", "exited"}]
    /\ qp_queue_thread \in QueueCallers
    /\ qp_join \in [QueueCallers -> QueueCallers]
    /\ qp_self_stop \in [QueueThreads -> BOOLEAN]
    /\ current_state \in OperatingStates \cup {"idle"}
    /\ whisper_is_running \in BOOLEAN
    /\ whisper_is_paused \in BOOLEAN
    /\ conv_timer \in {"none", "default", "followup"}
    /\ idle_timer \in {"none", "armed"}
    /\ is_processing \in BOOLEAN
    /\ is_dismissal_pending \in BOOLEAN
    /\ Len(response_queue) <= MaxTurns
    /\ session \in 0..MaxTurns
    /\ rpc \in {"idle", "callbacks", "streaming", "waiting", "generating"}
    /\ wpc \in {"off", "poll", "playing", "grace"}
    /\ ppc \in {"idle", "playing"}
    /\ on_chunk_start \in 0..MaxTurns
    /\ on_queue_complete \in 0..MaxTurns
    /\ stop_pc \in {"off", "timers", "listener", "whisper", "player", "woken", "done"}
    /\ conv_timeouts \in Nat /\ idle_timeouts \in Nat
    /\ conv_calling \in BOOLEAN /\ idle_calling \in BOOLEAN

\* ============================================================== properties
\* the response text the post-response handler of the step is given
DecisionText == IF use_streaming THEN full_response ELSE p_text

\* a step in which a post-response handler runs
DecisionStep == decisions' # decisions

\* -------------------------------------------------------------------- C1
\* C1: a wake signal delivered while the state is Listening, Processing or
\* Speaking changes nothing: the state, the capture switches, both timers and
\* the backend are as before, however many such signals arrive.
C1_WakeWhileActiveIsNoOp ==
    [][ignored_wakes' # ignored_wakes =>
          UNCHANGED <<current_state, whisper_is_running, whisper_is_paused,
                      conv_timer, idle_timer, ollama_running>>]_vars

C1_Witness ==
    /\ ignored_wakes = MaxIgnoredWakes
    /\ current_state = "speaking"
    /\ whisper_is_paused

\* -------------------------------------------------------------------- C2
\* C2: when the utterance of a turn was a dismissal, the post-response handler
\* of that turn leaves the system in LightSleep under every interaction mode,
\* in the streaming and in the blocking path.
C2_DismissalForcesLightSleep ==
    [][(DecisionStep /\ is_dismissal(user_input)) =>
          current_state' = "light_sleep"]_vars

C2_Witness ==
    /\ decisions = 1 /\ session = 1
    /\ is_dismissal(user_input)
    /\ interaction_mode = "conversation"
    /\ use_streaming
    /\ rpc = "idle"
    /\ current_state = "light_sleep"
    /\ ~is_dismissal_pending

\* -------------------------------------------------------------------- C3
\* C3: the dismissal flag is one-shot: whatever the outcome of a turn, the flag
\* is not set at the moment the next utterance is accepted.
C3_FlagClearWhenUtteranceAccepted ==
    [][Len(response_queue') > Len(response_queue) => ~is_dismissal_pending]_vars

\* -------------------------------------------------------------------- C4
\* C4: under the smart mode with no dismissal pending, the post-response
\* handler ends in Listening with capture resumed and the follow-up timer armed
\* if and only if the trimmed response ends with '?', and in LightSleep
\* otherwise.
C4_SmartFollowUpIffQuestion ==
    [][(DecisionStep /\ interaction_mode = "smart" /\ ~is_dismissal_pending) =>
          IF response_invites_continuation(DecisionText)
          THEN /\ current_state' = "listening"
               /\ ~whisper_is_paused'
               /\ conv_timer' = "followup"
          ELSE current_state' = "light_sleep"]_vars

\* -------------------------------------------------------------------- C5
\* C5: under the single-shot mode the post-response handler always ends in
\* LightSleep with capture stopped and the idle timer armed, whatever the
\* response text.
C5_SingleShotAlwaysLightSleep ==
    [][(DecisionStep /\ interaction_mode = "single-shot") =>
          /\ current_state' = "light_sleep"
          /\ ~whisper_is_running'
          /\ conv_timer' = "none"
          /\ idle_timer' = "armed"]_vars

C5_Witness ==
    /\ decisions = 1 /\ session = 1
    /\ interaction_mode = "single-shot"
    /\ ~is_dismissal(user_input)
    /\ rpc = "idle" /\ ppc = "idle"
    /\ current_state = "light_sleep"
    /\ ~whisper_is_running
    /\ idle_timer = "armed"

AsConversation ==
    IF use_streaming
    THEN handle_streaming_complete(View, "conversation", DecisionText)
    ELSE on_finish(View, "conversation", DecisionText)

\* the post-response state, capture status and timers are those of AsConversation
SameAsConversation ==
    /\ current_state' = AsConversation.state
    /\ whisper_is_running' = AsConversation.running
    /\ whisper_is_paused' = AsConversation.paused
    /\ conv_timer' = AsConversation.conv
    /\ idle_timer' = AsConversation.idle
    /\ is_dismissal_pending' = AsConversation.pending

\* C7 as stated: a mode other than single-shot, conversation or smart leaves,
\* for every response text and dismissal flag, the state the conversation mode
\* leaves, and the warning is logged.
C7_UnknownModeWarnsAlways ==
    [][(DecisionStep /\ interaction_mode \notin KnownModes) =>
          SameAsConversation /\ warned']_vars

\* C7 as amended: a mode other than single-shot, conversation or smart leaves,
\* for every response text and dismissal flag, the state the conversation mode
\* leaves, and the warning is logged exactly when no dismissal is pending.
C7_UnknownModeWarnsUnlessDismissal ==
    [][(DecisionStep /\ interaction_mode \notin KnownModes) =>
          SameAsConversation /\ (warned' <=> ~is_dismissal_pending)]_vars

C7_Witness ==
    /\ decisions = 1 /\ session = 1
    /\ interaction_mode \notin KnownModes
    /\ warned
    /\ rpc = "idle" /\ ppc = "idle"
    /\ current_state = "listening"
    /\ ~whisper_is_paused
    /\ conv_timer = "default"

\* -------------------------------------------------------------------- C8
\* C8: whenever a queue-complete callback is invoked, at that moment the queue
\* is empty, generation-complete is signalled for the session the callback
\* belongs to, and played_count >= enqueued_count.
C8_CompleteOnlyWhenGenerationComplete ==
    [][complete_calls' # complete_calls =>
          /\ playback_queue = <<>>
          /\ generation_complete
          /\ on_queue_complete = session
          /\ played_count >= enqueued_count]_vars

\* -------------------------------------------------------------------- C9
\* C9: the queue-complete callback of a session is invoked at most once and not
\* before every item enqueued in the session has finished playing: once it has
\* been invoked, no item of that session is enqueued, waiting or finishing.
C9_CompleteOnceAfterAllItems ==
    [][\A t \in Turns :
          /\ complete_calls'[t] <= 1
          /\ complete_calls[t] > 0 =>
                /\ ~(wpc = "playing" /\ w_item.session = t /\ wpc' = "poll")
                /\ \A i \in 1..Len(playback_queue') : playback_queue'[i].session # t]_vars

Before(x, y) == \/ x.session < y.session
                \/ x.session = y.session /\ x.n < y.n

C20_NotStuckInProcessing ==
    ~(/\ current_state = "processing"
      /\ rpc = "idle" /\ ~is_processing
      /\ response_queue = <<>>
      /\ ppc = "idle"
      /\ conv_timer = "none" /\ idle_timer = "none")

\* ------------------------------------------------------------------- C12
RECURSIVE Concat(_)
Concat(ss) == IF ss = <<>> THEN <<>> ELSE Head(ss) \o Concat(Tail(ss))

\* C12: after every add_chunk the sentences emitted so far followed by the
\* remaining buffer are exactly the text streamed so far, and after flush the
\* emitted sentences followed by the flushed remainder are exactly the
\* concatenation of the fragments: no character, whitespace included, is
\* dropped or duplicated.
C12_SegmentsConserveText ==
    Concat(sd_sentences) \o (IF sd_pc = "flushed" THEN sd_final ELSE sd_buffer) = sd_text

\* ------------------------------------------------------------------- C13
\* C13: every sentence add_chunk returns is at least min_sentence_length long;
\* only flush returns a shorter text.
C13_EmittedSentencesMeetMinimum ==
    \A i \in 1..Len(sd_sentences) : Len(sd_sentences[i]) >= min_sentence_length

C13_Witness ==
    /\ sd_pc = "flushed"
    /\ Len(sd_sentences) = 1
    /\ Len(sd_sentences[1]) = min_sentence_length
    /\ sd_final # <<>>
    /\ Len(sd_final) < min_sentence_length

\* ------------------------------------------------------------------- C14
\* C14: a timer that is started and never cancelled invokes its callback
\* exactly once: never twice, and once its thread has ended, not zero times.
C14_UncancelledTimerFiresOnce ==
    \A a \in Armings :
        /\ tm_calls[a] <= 1
        /\ (tm_thread[a].pc = "done" /\ tm_cancelled_at[a] \in {"never", "done"})
              => tm_calls[a] = 1

C14_Witness ==
    \E a, b \in Armings :
        /\ tm_thread[a].name = "conversation" /\ tm_thread[b].name = "idle"
        /\ tm_thread[a].pc = "done" /\ tm_thread[b].pc = "done"
        /\ tm_cancelled_at[a] = "never" /\ tm_cancelled_at[b] = "never"
        /\ tm_calls[a] = 1 /\ tm_calls[b] = 1

\* ------------------------------------------------------------------- C15
\* C15: a timer that is reset or stopped while its countdown is still running
\* never invokes its callback for that arming.
C15_CancelledBeforeExpiryNeverFires ==
    \A a \in Armings : tm_cancelled_at[a] = "waiting" => tm_calls[a] = 0

C15_Witness ==
    \E a, b \in Armings :
        /\ tm_thread[a].name = "conversation" /\ tm_thread[b].name = "idle"
        /\ tm_cancelled_at[a] = "waiting" /\ tm_cancelled_at[b] = "waiting"
        /\ tm_thread[a].pc = "done" /\ tm_thread[b].pc = "done"
        /\ tm_handle["conversation"] = 0 /\ tm_handle["idle"] = 0
        /\ tm_calls[a] = 0 /\ tm_calls[b] = 0

\* ------------------------------------------------------------------- C16
\* C16: once a cancelling call (reset, stop or a superseding start) has
\* returned, the callback of the cancelled arming is not invoked any more,
\* also when expiry and cancellation race.
C16_NoCallbackAfterCancel ==
    [][\A a \in Armings :
          (tm_cancelled_at[a] # "never") => tm_calls'[a] = tm_calls[a]]_vars

\* ------------------------------------------------------------------- C17
\* the armings of timer n whose countdown is pending
Pending(n) ==
    {a \in Armings : /\ tm_thread[a].name = n
                     /\ tm_thread[a].pc = "waiting"
                     /\ ~tm_thread[a].finished}

\* C17: for each timer name at most one countdown is pending, and it is the one
\* the handle refers to: a start supersedes and cancels the prior countdown, so
\* a superseded countdown that had not expired never invokes the callback.
C17_AtMostOnePendingPerName ==
    \A n \in TimerNames :
        /\ Cardinality(Pending(n)) <= 1
        /\ \A a \in Pending(n) : tm_handle[n] = a
        /\ \A a \in Armings :
              (tm_thread[a].name = n /\ tm_handle[n] # a /\ tm_thread[a].pc = "waiting")
                 => tm_thread[a].finished
        /\ \A a \in Armings :
              (tm_thread[a].name = n /\ tm_handle[n] # a /\ tm_cancelled_at[a] = "waiting")
                 => tm_calls[a] = 0

C17_Witness ==
    /\ tm_thread[1].name = "conversation" /\ tm_thread[2].name = "conversation"
    /\ tm_cancelled_at[1] = "waiting" /\ tm_calls[1] = 0
    /\ tm_handle["conversation"] = 2
    /\ tm_thread[2].pc = "done" /\ tm_calls[2] = 1

\* ------------------------------------------------------------------- C18
\* C18: a start call that asks for a per-call duration succeeds without error,
\* the countdown it arms uses that duration, and the configured defaults are
\* unchanged.
C18_PerCallDurationSupported ==
    tm_requested = "followup" =>
        /\ ~tm_error
        /\ tm_handle["conversation"] # 0
        /\ tm_thread[tm_handle["conversation"]].duration = "followup"
        /\ tm_default = [n \in TimerNames |-> "default"]

\* ------------------------------------------------------------------- C21
\* C21: the conversation timer is cancelled before a turn begins: in every
\* reachable state whose operating state is processing or speaking no
\* conversation countdown is armed.
C21_NoConversationCountdownDuringTurn ==
    current_state \in {"processing", "speaking"} => conv_timer = "none"

\* ------------------------------------------------------------------- C22
\* C22: the post-playback transition decision of a turn is taken only after
\* every audio item enqueued for the turn has finished playing: when a
\* post-response handler runs, no item is queued and the worker plays none.
C22_DecisionAfterAllItemsPlayed ==
    [][DecisionStep => (playback_queue = <<>> /\ wpc # "playing" /\ w_item = NoItem)]_vars

\* ------------------------------------------------------------------- C23
\* C23: VoiceChatbot.stop works in this order, each step complete before the
\* next: no wake or transcription event is accepted any more, then the timers
\* are cancelled, then the workers are signalled and joined and the audio
\* queue is cleared, then the history is persisted.  So the timers are
\* cancelled only when the wake listener and the capture are stopped, and the
\* history is persisted only when the queue is empty and its worker and the
\* response processor are at rest.
C23_StopStepsInOrder ==
    [][/\ (stop_pc = "off" /\ stop_pc' = "timers")
             => (~esp32_is_running' /\ ~whisper_is_running')
       /\ (stop_pc = "woken" /\ stop_pc' = "done")
             => (/\ playback_queue = <<>> /\ ~is_queue_active /\ wpc = "off"
                 /\ rpc = "idle" /\ conv_timer = "none" /\ idle_timer = "none")]_vars

\* ------------------------------------------------------------------- C24
\* C24: in every reachable state, for every start mode, the operating state is
\* one of listening, processing, speaking, light_sleep and deep_sleep; stated
\* here for the states after a successful VoiceChatbot.start only (before it
\* the state is "idle", the value the StateManager is constructed with).
C24_StateIsOperatingState == started = "running" => current_state \in OperatingStates

\* ------------------------------------------------------------------- C25
\* C25: a wake signal received in light_sleep, with the capture starting, moves
\* the system to listening with the idle timer not armed and the capture
\* running and not paused, and the idle timer the wake cancelled never fires:
\* the idle callback does not run in the listening state the wake led to.
C25_WakeFromLightSleepCancelsIdleTimer ==
    [][/\ current_state = "light_sleep" =>
             \A wake_ok \in BOOLEAN :
                 LET v == on_wake_word_detected(View, wake_ok, TRUE)
                 IN  /\ v.state = "listening"
                     /\ v.idle = "none"
                     /\ v.running /\ ~v.paused
       /\ (idle_calling /\ ~idle_calling') => current_state # "listening"]_vars

\* ------------------------------------------------------------------- C26
\* C26: when the conversation timer fires while the state is listening, the
\* capture is stopped, the conversation timer is cleared, the idle timer is
\* armed and the state becomes light_sleep.
C26_ConversationTimeoutEntersLightSleep ==
    [][conv_timeouts' # conv_timeouts
          => (/\ current_state' = "light_sleep"
              /\ ~whisper_is_running'
              /\ conv_timer' = "none"
              /\ idle_timer' = "armed")]_vars

C26_Witness ==
    /\ conv_timeouts = 1
    /\ interaction_mode = "conversation" /\ decisions = 1 /\ ~is_dismissal_pending
    /\ rpc = "idle" /\ ppc = "idle" /\ response_queue = <<>>
    /\ current_state = "light_sleep"
    /\ ~whisper_is_running /\ conv_timer = "none" /\ idle_timer = "armed"

\* ------------------------------------------------------------------- C27
\* C27: when the idle timer fires while the state is light_sleep and the
\* backend stop succeeds (the backend is down after the step), the state
\* becomes deep_sleep with the capture stopped and neither timer armed.
C27_IdleTimeoutEntersDeepSleep ==
    [][(idle_timeouts' # idle_timeouts /\ ~ollama_running')
          => (/\ current_state' = "deep_sleep"
              /\ ~whisper_is_running'
              /\ conv_timer' = "none"
              /\ idle_timer' = "none")]_vars

C27_Witness ==
    /\ idle_timeouts = 1
    /\ current_state = "deep_sleep" /\ ~ollama_running
    /\ ~whisper_is_running /\ conv_timer = "none" /\ idle_timer = "none"
    /\ conv_timeouts = 1 /\ decisions = 1

\* ------------------------------------------------------------------- C28
\* C28: the conversation history is a bounded ordered list: once the
\* ConversationManager is constructed, with a reloaded file or not, and after
\* any additions, it holds at most max_entries entries, they are in the order
\* they were added and end with the most recent one, and the file holds the
\* full history after an addition that wrote it.
C28_HistoryBoundedAndOrdered ==
    cm_pc = "ready" =>
        /\ Len(entries) <= max_entries
        /\ \A i \in 1..(Len(entries) - 1) : entries[i + 1].n = entries[i].n + 1
        /\ adds > 0 => entries[Len(entries)].n = MaxFileLen + adds
        /\ (adds > 0 /\ last_add_saved) => save_file = entries

\* the sentences whose synthesis succeeded, in the order the segmenter yielded them
RECURSIVE Kept(_, _)
Kept(sentences, oks) ==
    IF sentences = <<>> THEN <<>>
    ELSE (IF Head(oks) THEN <<Head(sentences)>> ELSE <<>>)
         \o Kept(Tail(sentences), Tail(oks))

ItemTexts(queue) == [i \in 1..Len(queue) |-> queue[i].text]

\* C29: a synthesis failure skips only its own sentence: at every point of a
\* processor run the queue holds, in segmenter order, exactly the sentences yielded
\* so far whose synthesis succeeded (the flushed remainder included), and after the
\* end of a stream that delivered chunks generation-complete has been signalled
C29_OnlyFailedSentenceSkipped ==
    sd_pc \in {"synthesizing", "finalized"} =>
        /\ Len(sd_synth_ok) = Len(sd_sentences)
        /\ ItemTexts(playback_queue) = Kept(sd_sentences, sd_synth_ok)
        /\ \A i \in 1..Len(playback_queue) : playback_queue[i].n = i
        /\ enqueued_count = Len(playback_queue)
        /\ (sd_pc = "finalized" /\ sd_final # <<>>) =>
               sd_sentences[Len(sd_sentences)] = sd_final
        /\ (sd_pc = "finalized" /\ chunks_received > 0) => generation_complete

\* a finished run in which a sentence between two enqueued ones failed and the
\* flushed remainder was enqueued after it
C29_Witness ==
    /\ sd_pc = "finalized"
    /\ sd_final # <<>>
    /\ Len(sd_sentences) >= 4
    /\ sd_synth_ok[1] /\ ~sd_synth_ok[2] /\ sd_synth_ok[3]
    /\ sd_synth_ok[Len(sd_synth_ok)]
    /\ playback_queue[Len(playback_queue)].text = sd_final
    /\ generation_complete

\* C30: stop_queue_playback called from a queue worker's own thread never joins that
\* thread, so the call returns at once, and the worker's next test of its loop
\* condition ends the loop
C30_SelfStopReturnsAndWorkerExits ==
    [][/\ \A t \in QueueThreads : qp_join'[t] # t
       /\ \A t \in QueueThreads :
              (qp_pc[t] = "test" /\ qp_pc'[t] # "test" /\ qp_self_stop[t])
                  => qp_pc'[t] = "finally"]_vars

\* the part of C30 about the call itself: no worker ever waits for its own end
C30_NoSelfJoin == \A t \in QueueThreads : qp_join[t] # t

\* C31: after add_chunk has returned, no prefix of the held buffer ends at a
\* sentence delimiter with a trimmed length of at least min_sentence_length
C31_NoLongEnoughPrefixHeld ==
    sd_pc = "feeding" =>
        \A i \in 1..Len(sd_buffer) :
            sd_buffer[i] \in sentence_endings
                => Len(Strip(SubSeq(sd_buffer, 1, i))) < min_sentence_length

\* C32: flush returns all that remains in the buffer whatever its length and leaves
\* the buffer empty; it returns None exactly when the buffer was empty, and a
\* second flush returns None
C32_FlushEmptiesBuffer ==
    [][(sd_pc = "feeding" /\ sd_pc' = "flushed") =>
          /\ sd_buffer' = <<>>
          /\ (sd_final' = <<>>) <=> (sd_buffer = <<>>)
          /\ sd_buffer # <<>> => sd_final' = Strip(sd_buffer)
          /\ Flush(sd_buffer').sentence = <<>>]_vars

\* C33: auto-sleep on inactivity needs the conversation timer: whenever the program
\* rests in listening (no turn accepted or in progress), the conversation timer is
\* armed, whichever way listening was entered; only its firing leads to light sleep
C33_ListeningAtRestHasCountdown ==
    (/\ started = "running" /\ stop_pc = "off"
     /\ current_state = "listening"
     /\ ~is_processing /\ rpc = "idle" /\ response_queue = <<>>)
        => conv_timer # "none"

\* C34: when the idle timer fires in light_sleep and the backend cannot be stopped,
\* the state stays light_sleep, the capture stays stopped and the idle timer is
\* armed again
C34_FailedDeepSleepRetries ==
    [][(idle_timeouts' # idle_timeouts /\ ollama_running') =>
          /\ current_state' = "light_sleep"
          /\ idle_timer' # "none"
          /\ conv_timer' = "none"
          /\ ~whisper_is_running']_vars

\* an idle timeout whose backend stop failed, before anything else happened
C34_Witness ==
    /\ idle_timeouts = 1 /\ conv_timeouts = 0 /\ session = 0
    /\ current_state = "light_sleep"
    /\ ollama_running
    /\ idle_timer # "none"

\* C35: whenever the state is listening and no turn is accepted or in progress,
\* the speech capture is running and not paused
C35_ListeningAtRestHears ==
    (/\ started = "running" /\ stop_pc = "off"
     /\ current_state = "listening"
     /\ ~is_processing /\ rpc = "idle" /\ response_queue = <<>>)
        => (whisper_is_running /\ ~whisper_is_paused)

\* C36: every transition into processing starts from listening: nothing changes the
\* state between the acceptance of a transcript and the switch to processing
C36_ProcessingEnteredFromListening ==
    [][(current_state' = "processing" /\ current_state # "processing")
          => current_state = "listening"]_vars

\* C37: after start() every transition into deep_sleep starts from light_sleep (or
\* from the state a failed deep-sleep start left, which is no operating state): an
\* idle timeout callback does not act once a wake has set listening
C37_DeepSleepEnteredFromLightSleep ==
    [][(started = "running" /\ current_state' = "deep_sleep"
          /\ current_state # "deep_sleep")
          => current_state \in {"light_sleep", "idle"}]_vars

\* C38: whenever the program rests in light_sleep the idle timer is armed, also
\* after a wake in light_sleep that failed to start the speech capture
C38_LightSleepHasIdleCountdown ==
    (started = "running" /\ stop_pc = "off" /\ current_state = "light_sleep")
        => idle_timer # "none"

\* C39: during processing and speaking the speech capture is stopped or paused
C39_NoCaptureDuringTurn ==
    (started = "running" /\ current_state \in {"processing", "speaking"})
        => (~whisper_is_running \/ whisper_is_paused)

\* C40: once stop() has returned no conversation or idle timer is armed and the
\* operating state does not change any more
C40_NothingHappensAfterStop ==
    [][stop_pc = "done" =>
          /\ conv_timer' = "none" /\ idle_timer' = "none"
          /\ current_state' = current_state]_vars

====
